---- MODULE Spec2Model ----
(***************************************************************************)
(* Motologix deterministic scoring pipeline: validator, normalizer,        *)
(* weight manager, scoring engine, ranker and comparator.                  *)
(*                                                                         *)
(* Numbers.  Weights, weighted sums and thresholds are Numbers (IEEE 754   *)
(* binary64) computed with the rounding of every operation; overflow and   *)
(* subnormal results lie outside the weights modelled.  Factor scores      *)
(* inside the normalizer are integers counting quarter points (5 is 20,    *)
(* 0.25 is 1): every increment of the rule set is a multiple of 0.25, and  *)
(* those are Numbers without rounding.                                     *)
(***************************************************************************)
EXTENDS Integers, Sequences, FiniteSets, TLC

VARIABLES
    \* weight manager harness
    wIn, wStage, wOnce, wTwice, wValid, wAccepted,
    \* scoring engine harness
    sWeights, sScores, sBike, sStage, sFinal, sScored,
    \* validator / normalizer harness
    nBike, nMode, nStage, nValidation, nResult, nConfidences,
    \* ranker harness
    rBatch, rWeights, rMode, rStage, rResult,
    \* comparator harness
    cBike1, cBike2, cStage, cForward, cBackward,
    \* defaulter harness
    fBike, fStage, fFilled, fValidation, fConfidences, fAgain,
    \* discovery agent harness
    dConfigured, dQueries, dGemini, dStage, dPath, dResults,
    \* rate limiter harness
    rateLimitState, lNow, lAdmitted, lLast,
    \* application store harness
    store, tFetch, tPending, tLatest, tLast, tMoves

wVars == <<wIn, wStage, wOnce, wTwice, wValid, wAccepted>>

sVars == <<sWeights, sScores, sBike, sStage, sFinal, sScored>>

nVars == <<nBike, nMode, nStage, nValidation, nResult, nConfidences>>

rVars == <<rBatch, rWeights, rMode, rStage, rResult>>

cVars == <<cBike1, cBike2, cStage, cForward, cBackward>>

fVars == <<fBike, fStage, fFilled, fValidation, fConfidences, fAgain>>

dVars == <<dConfigured, dQueries, dGemini, dStage, dPath, dResults>>

lVars == <<rateLimitState, lNow, lAdmitted, lLast>>

tVars == <<store, tFetch, tPending, tLatest, tLast, tMoves>>

vars == <<wVars, sVars, nVars, rVars, cVars, fVars, dVars, lVars, tVars>>

\* what each harness leaves alone: the variables of the other harnesses
wOthers == <<sVars, nVars, rVars, cVars, fVars, dVars, lVars, tVars>>

sOthers == <<wVars, nVars, rVars, cVars, fVars, dVars, lVars, tVars>>

nOthers == <<wVars, sVars, rVars, cVars, fVars, dVars, lVars, tVars>>

rOthers == <<wVars, sVars, nVars, cVars, fVars, dVars, lVars, tVars>>

cOthers == <<wVars, sVars, nVars, rVars, fVars, dVars, lVars, tVars>>

fOthers == <<wVars, sVars, nVars, rVars, cVars, dVars, lVars, tVars>>

dOthers == <<wVars, sVars, nVars, rVars, cVars, fVars, lVars, tVars>>

lOthers == <<wVars, sVars, nVars, rVars, cVars, fVars, dVars, tVars>>

tOthers == <<wVars, sVars, nVars, rVars, cVars, fVars, dVars, lVars>>

(***************************************************************************)
(* Natural numbers of any size: little-endian sequences of 14-bit limbs    *)
(* without leading zero limbs (zero is the empty sequence)                 *)
(***************************************************************************)
RECURSIVE BigTrim(_)
BigTrim(a) ==
    IF a = <<>> \/ a[Len(a)] # 0 THEN a ELSE BigTrim(SubSeq(a, 1, Len(a) - 1))

RECURSIVE BigNat(_)
BigNat(k) == IF k = 0 THEN <<>> ELSE << k % 16384 >> \o BigNat(k \div 16384)

RECURSIVE BigToInt(_)
BigToInt(a) == IF a = <<>> THEN 0 ELSE Head(a) + 16384 * BigToInt(Tail(a))

\* the limb of a at position i, 0 beyond its length
Limb(a, i) == IF i <= Len(a) THEN a[i] ELSE 0

\* a + b + carry from limb i on, for carry in {0, 1}
RECURSIVE BigAddFrom(_, _, _, _)
BigAddFrom(a, b, i, carry) ==
    IF i > Len(a) /\ i > Len(b) THEN (IF carry = 0 THEN <<>> ELSE << carry >>)
    ELSE << (Limb(a, i) + Limb(b, i) + carry) % 16384 >>
         \o BigAddFrom(a, b, i + 1, (Limb(a, i) + Limb(b, i) + carry) \div 16384)

BigAdd(a, b) == BigAddFrom(a, b, 1, 0)

\* a - b - borrow from limb i on, for a >= b (untrimmed)
RECURSIVE BigSubFrom(_, _, _, _)
BigSubFrom(a, b, i, borrow) ==
    IF i > Len(a) THEN <<>>
    ELSE << (a[i] - Limb(b, i) - borrow) % 16384 >>
         \o BigSubFrom(a, b, i + 1, IF a[i] - Limb(b, i) - borrow < 0 THEN 1 ELSE 0)

\* a - b, for a >= b
BigSub(a, b) == BigTrim(BigSubFrom(a, b, 1, 0))

RECURSIVE BigCmpFrom(_, _, _)
BigCmpFrom(a, b, i) ==
    IF i = 0 THEN 0
    ELSE IF a[i] # b[i] THEN (IF a[i] < b[i] THEN -1 ELSE 1)
    ELSE BigCmpFrom(a, b, i - 1)

\* -1, 0 or 1 as a < b, a = b or a > b
BigCmp(a, b) ==
    IF Len(a) # Len(b) THEN (IF Len(a) < Len(b) THEN -1 ELSE 1)
    ELSE BigCmpFrom(a, b, Len(a))

\* a * k + carry (untrimmed when k = 0)
RECURSIVE BigMulSmall(_, _, _)
BigMulSmall(a, k, carry) ==
    IF a = <<>> THEN (IF carry = 0 THEN <<>> ELSE << carry >>)
    ELSE << (Head(a) * k + carry) % 16384 >>
         \o BigMulSmall(Tail(a), k, (Head(a) * k + carry) \div 16384)

RECURSIVE BigMul(_, _)
BigMul(a, b) ==
    IF a = <<>> \/ b = <<>> THEN <<>>
    ELSE BigAdd(BigMulSmall(a, Head(b), 0), << 0 >> \o BigMul(a, Tail(b)))

\* a * 2^k
BigShl(a, k) ==
    IF a = <<>> THEN a
    ELSE [i \in 1..(k \div 14) |-> 0] \o BigMulSmall(a, 2 ^ (k % 14), 0)

\* floor(b / p) for a power of two p <= 2^13
BigShrBits(b, p) ==
    BigTrim([i \in 1..Len(b) |-> (b[i] \div p) + (Limb(b, i + 1) % p) * (16384 \div p)])

\* floor(a / 2^k)
BigShr(a, k) == BigShrBits(SubSeq(a, (k \div 14) + 1, Len(a)), 2 ^ (k % 14))

\* a mod 2^k
BigLow(a, k) ==
    IF Len(a) <= k \div 14 THEN a
    ELSE BigTrim(SubSeq(a, 1, k \div 14) \o << a[(k \div 14) + 1] % (2 ^ (k % 14)) >>)

RECURSIVE BitLen(_)
BitLen(x) == IF x = 0 THEN 0 ELSE 1 + BitLen(x \div 2)

BigBitLen(a) == IF a = <<>> THEN 0 ELSE 14 * (Len(a) - 1) + BitLen(a[Len(a)])

\* the limb q with q * d <= r14 < (q + 1) * d, which lies within 2 of est
BigDivPick(r14, d, est) ==
    CHOOSE c \in (est - 2)..(est + 2) :
        /\ c >= 0
        /\ BigCmp(BigTrim(BigMulSmall(d, c, 0)), r14) <= 0
        /\ BigCmp(r14, BigMulSmall(d, c + 1, 0)) < 0

\* << q, r14 - q * d >>
BigDivRemainder(r14, d, q) == << q, BigSub(r14, BigTrim(BigMulSmall(d, q, 0))) >>

\* one step of long division by a 53-bit d, for r < d: the limb
\* q = floor(r * 2^14 / d), estimated from the leading 16 bits, and the
\* remainder r * 2^14 - q * d
BigDivLimb(r14, d) ==
    BigDivRemainder(r14, d,
        BigDivPick(r14, d, BigToInt(BigShr(r14, 37)) \div BigToInt(BigShr(d, 37))))

\* n more quotient limbs: << floor(r * 2^(14n) / d), the remainder >>, for r < d
RECURSIVE BigDivLimbs(_, _, _), BigDivNext(_, _, _)
BigDivLimbs(r, d, n) ==
    IF n = 0 THEN << <<>>, r >> ELSE BigDivNext(BigDivLimb(BigShl(r, 14), d), d, n - 1)

RECURSIVE BigDivJoin(_, _)
\* after the step top = << limb, remainder >>: a zero remainder leaves zero limbs
BigDivNext(top, d, n) ==
    IF top[2] = <<>> THEN << [i \in 1..n |-> 0] \o << top[1] >>, <<>> >>
    ELSE BigDivJoin(top[1], BigDivLimbs(top[2], d, n))

BigDivJoin(limb, rest) == << rest[1] \o << limb >>, rest[2] >>

(***************************************************************************)
(* The Number type: IEEE 754 binary64, round to nearest, ties to even.     *)
(* A finite value is sign * man * 2^exp with man = 0 or 2^52 <= man < 2^53 *)
(***************************************************************************)
Zero == [sign |-> 1, man |-> <<>>, exp |-> 0]

IsZero(x) == x.man = <<>>

\* q1 is 53 bits, or 2^53 after a carry out of the top bit
RoundCarry(sign, q1, e) ==
    IF BigBitLen(q1) > 53 THEN [sign |-> sign, man |-> BigShr(q1, 1), exp |-> e + 1]
    ELSE [sign |-> sign, man |-> q1, exp |-> e]

\* q2 is the 53 bits kept and the round bit below them; sticky says that a
\* lower bit is set: up when above the tie, or at the tie with an odd last bit
RoundUp(sign, q2, sticky, e) ==
    RoundCarry(sign,
               BigShr(BigAdd(q2, IF q2[1] % 4 = 3 \/ (q2[1] % 2 = 1 /\ sticky)
                                 THEN << 1 >> ELSE <<>>), 1),
               e)

\* x.man # 0 has 53 + k bits
RoundAt(x, k) ==
    IF k <= 0 THEN [sign |-> x.sign, man |-> BigShl(x.man, -k), exp |-> x.exp + k]
    ELSE RoundUp(x.sign, BigShr(x.man, k - 1), BigLow(x.man, k - 1) # <<>>, x.exp + k)

\* the Number nearest to x.sign * x.man * 2^x.exp, for any natural x.man
RoundToNumber(x) ==
    IF x.man = <<>> THEN Zero ELSE RoundAt(x, BigBitLen(x.man) - 53)

\* sign * (mx - my) * 2^e for mx > my
ExactDiff(sign, mx, my, e) == [sign |-> sign, man |-> BigSub(mx, my), exp |-> e]

ExactSub(sx, mx, sy, my, e, c) ==
    IF c = 0 THEN Zero
    ELSE IF c > 0 THEN ExactDiff(sx, mx, my, e) ELSE ExactDiff(sy, my, mx, e)

\* sx * mx * 2^e + sy * my * 2^e
ExactAligned(sx, mx, sy, my, e) ==
    IF sx = sy THEN [sign |-> sx, man |-> BigAdd(mx, my), exp |-> e]
    ELSE ExactSub(sx, mx, sy, my, e, BigCmp(mx, my))

\* the exact sum of two Numbers, unrounded
ExactAdd(x, y) ==
    IF IsZero(x) THEN y
    ELSE IF IsZero(y) THEN x
    ELSE IF x.exp >= y.exp
         THEN ExactAligned(x.sign, BigShl(x.man, x.exp - y.exp), y.sign, y.man, y.exp)
         ELSE ExactAligned(y.sign, BigShl(y.man, y.exp - x.exp), x.sign, x.man, x.exp)

DInt(k) ==
    RoundToNumber([sign |-> IF k < 0 THEN -1 ELSE 1,
                   man  |-> BigNat(IF k < 0 THEN -k ELSE k), exp |-> 0])

DNeg(x) == IF IsZero(x) THEN x ELSE [x EXCEPT !.sign = -x.sign]

DAbs(x) == [x EXCEPT !.sign = 1]

DAdd(x, y) == RoundToNumber(ExactAdd(x, y))

DSub(x, y) == DAdd(x, DNeg(y))

DMul(x, y) ==
    RoundToNumber([sign |-> x.sign * y.sign, man |-> BigMul(x.man, y.man),
                   exp  |-> x.exp + y.exp])

\* the quotient q of 56 or 57 bits and the remainder: a last bit for the
\* remainder makes the rounding exact
DivSticky(sign, qr, e) ==
    RoundToNumber([sign |-> sign,
                   man  |-> BigMulSmall(BigTrim(qr[1]), 2, IF qr[2] = <<>> THEN 0 ELSE 1),
                   exp  |-> e])

\* x / y for y # 0
DDiv(x, y) ==
    IF IsZero(x) THEN Zero
    ELSE DivSticky(x.sign * y.sign,
                   IF BigCmp(x.man, y.man) >= 0
                   THEN BigDivNext(<< 1, BigSub(x.man, y.man) >>, y.man, 4)
                   ELSE BigDivLimbs(x.man, y.man, 4),
                   x.exp - y.exp - 57)

\* x is negative
IsNegative(x) == x.man # <<>> /\ x.sign = -1

\* x < y
DLt(x, y) == IsNegative(ExactAdd(x, DNeg(y)))

\* floor(x.sign * x.man * 2^x.exp), an integer
ExactFloor(x) ==
    IF x.exp >= 0 THEN x.sign * BigToInt(BigShl(x.man, x.exp))
    ELSE IF x.sign = 1 \/ BigLow(x.man, -x.exp) = <<>>
         THEN x.sign * BigToInt(BigShr(x.man, -x.exp))
         ELSE -(BigToInt(BigShr(x.man, -x.exp)) + 1)

\* Math.round: floor(x + 0.5), the sum taken exactly
MathRound(x) == ExactFloor(ExactAdd(x, [sign |-> 1, man |-> BigShl(<< 1 >>, 52), exp |-> -53]))

\* the Number a decimal literal in hundredths denotes (0.12 is Hundredths(12)):
\* the Number nearest to c/100
Hundredths(c) == DDiv(DInt(c), DInt(100))

\* the literals of the scoring and validation code
Num0 == Zero

Num1 == DInt(1)

Num10 == DInt(10)

Num0_01 == Hundredths(1)

Num0_05 == Hundredths(5)

Num0_5 == Hundredths(50)

Abs(x) == IF x < 0 THEN -x ELSE x

\* a score written in quarter points: Score(1, 2) is 1.5
Score(whole, quarters) == 4 * whole + quarters

\* the Number a score in quarter points is (exact: a multiple of 0.25)
ScoreToNumber(q) == RoundToNumber([sign |-> 1, man |-> BigNat(q), exp |-> -2])

(***************************************************************************)
(* Types                                                                   *)
(***************************************************************************)
\* FactorKey, in the key order of FactorWeights / FactorScores
FactorKeys ==
    << "dailyTrafficEase", "brakingSafetyConfidence", "primaryPillionComfort",
       "highwayStability", "riderComfort", "suspensionCompliance",
       "funEngagement", "heatManagement", "ownershipPracticality",
       "longTermSuitability" >>

FactorKeySet == { FactorKeys[i] : i \in DOMAIN FactorKeys }

\* the FactorWeights object with the given weights in hundredths
WeightsOf(hundredths) == [k \in FactorKeySet |-> Hundredths(hundredths[k])]

DEFAULT_WEIGHTS ==
    WeightsOf([ dailyTrafficEase        |-> 12,
                brakingSafetyConfidence |-> 15,
                primaryPillionComfort   |-> 15,
                highwayStability        |-> 10,
                riderComfort            |-> 10,
                suspensionCompliance    |-> 10,
                funEngagement           |-> 8,
                heatManagement          |-> 5,
                ownershipPracticality   |-> 8,
                longTermSuitability     |-> 7 ])

(***************************************************************************)
(* Motorcycle records.  A record may be partial: an absent number is Undef *)
(* and an absent string is NoString (JS undefined).  Comparing undefined   *)
(* with a number is false whichever way it is written.                     *)
(***************************************************************************)
Undef == -1000

NoString == "<undefined>"

\* JS truthiness of a number field / of a string field
TruthyNum(x) == x # Undef /\ x # 0

TruthyStr(s) == s # NoString /\ s # ""

\* mutant: a missing number is read as 0
Lt_MissingAsZero(x, c) == (IF x = Undef THEN 0 ELSE x) < c

Lt(x, c) == x # Undef /\ x < c

Le(x, c) == x # Undef /\ x <= c

Gt(x, c) == x # Undef /\ x > c

Ge(x, c) == x # Undef /\ x >= c

\* the needles of the rule set that s.toLowerCase() contains
LowerNeedles(s) ==
    CASE s = "Hero"            -> {"hero"}
      [] s = "Honda"           -> {"honda"}
      [] s = "Hero Honda"      -> {"hero", "honda"}
      [] s = "TVS"             -> {"tvs"}
      [] s = "Bajaj"           -> {"bajaj"}
      [] s = "Royal Enfield"   -> {"royal enfield"}
      [] s = "Suzuki"          -> {"suzuki"}
      [] s = "Yamaha"          -> {"yamaha"}
      [] s = "KTM"             -> {"ktm"}
      [] s = "Kawasaki"        -> {"kawasaki"}
      [] s = "Benelli"         -> {"benelli"}
      [] s = "Triumph"         -> {"triumph"}
      [] s = "telescopic"      -> {"telescopic"}
      [] s = "Telescopic fork" -> {"telescopic"}
      [] s = "USD forks"       -> {"usd"}
      [] s = "USD telescopic"  -> {"usd", "telescopic"}
      [] OTHER                 -> {}

\* s.toLowerCase().includes(needle), for a string s that is present
LowerIncludes(s, needle) == needle \in LowerNeedles(s)

(***************************************************************************)
(* Motorcycle validation (engine/validator)                                *)
(***************************************************************************)
\* a ValidationError / ValidationWarning: its stable code and its field
Issue(code, field) == [code |-> code, field |-> field]

NoField == ""

\* one "if (cond) list.push(issue)" step
PushIf(cond, code, field) == IF cond THEN << Issue(code, field) >> ELSE <<>>

validateMotorcycle(bike) ==
    LET engineBad == ~TruthyNum(bike.engineCC) \/ Le(bike.engineCC, 0)
        powerBad  == ~TruthyNum(bike.power) \/ Le(bike.power, 0)
        weightBad == ~TruthyNum(bike.kerbWeight) \/ Le(bike.kerbWeight, 0)
        seatBad   == ~TruthyNum(bike.seatHeight) \/ Le(bike.seatHeight, 0)
        errors ==
               PushIf(~TruthyStr(bike.brand), "MISSING_BRAND", "brand")
            \o PushIf(~TruthyStr(bike.model), "MISSING_MODEL", "model")
            \o PushIf(engineBad, "INVALID_ENGINE", "engineCC")
            \o PushIf(powerBad, "INVALID_POWER", "power")
            \o PushIf(weightBad, "INVALID_WEIGHT", "kerbWeight")
            \o PushIf(~TruthyStr(bike.frontBrake), "MISSING_FRONT_BRAKE", "frontBrake")
            \o PushIf(~TruthyStr(bike.rearBrake), "MISSING_REAR_BRAKE", "rearBrake")
        warnings ==
               PushIf(~engineBad /\ Gt(bike.engineCC, 2000), "LARGE_ENGINE", "engineCC")
            \o PushIf(~powerBad /\ Gt(bike.power, 200), "HIGH_POWER", "power")
            \o PushIf(~TruthyNum(bike.torque) \/ Le(bike.torque, 0),
                      "MISSING_TORQUE", "torque")
            \o PushIf(~weightBad /\ (Lt(bike.kerbWeight, 80) \/ Gt(bike.kerbWeight, 400)),
                      "UNUSUAL_WEIGHT", "kerbWeight")
            \o PushIf(seatBad, "MISSING_SEAT_HEIGHT", "seatHeight")
            \o PushIf(~seatBad /\ (Lt(bike.seatHeight, 600) \/ Gt(bike.seatHeight, 1000)),
                      "UNUSUAL_SEAT_HEIGHT", "seatHeight")
            \o PushIf(~TruthyNum(bike.wheelbase) \/ Le(bike.wheelbase, 0),
                      "MISSING_WHEELBASE", "wheelbase")
            \o PushIf(~TruthyNum(bike.groundClearance) \/ Le(bike.groundClearance, 0),
                      "MISSING_GROUND_CLEARANCE", "groundClearance")
            \o PushIf(~TruthyStr(bike.absType), "MISSING_ABS", "absType")
            \o PushIf(~TruthyNum(bike.frontTyreWidth) \/ Le(bike.frontTyreWidth, 0),
                      "MISSING_FRONT_TYRE", "frontTyreWidth")
            \o PushIf(~TruthyNum(bike.rearTyreWidth) \/ Le(bike.rearTyreWidth, 0),
                      "MISSING_REAR_TYRE", "rearTyreWidth")
            \o PushIf(~TruthyStr(bike.frontSuspension),
                      "MISSING_FRONT_SUSPENSION", "frontSuspension")
            \o PushIf(~TruthyStr(bike.rearSuspension),
                      "MISSING_REAR_SUSPENSION", "rearSuspension")
    IN  [ isValid |-> Len(errors) = 0, warnings |-> warnings, errors |-> errors ]

(***************************************************************************)
(* Normalization engine (engine/normalizer): raw record -> factor scores   *)
(***************************************************************************)
\* Math.min(max, Math.max(min, value))
clamp(value, min, max) ==
    LET lower == IF value > min THEN value ELSE min
    IN  IF lower < max THEN lower ELSE max

\* Math.round(value * 2) / 2, on quarter points
roundHalf(value) == 2 * ((value + 1) \div 2)

\* pwr = (bike.power / bike.kerbWeight) * 100 compared with c > 0; a zero
\* kerb weight gives +-Infinity or NaN, an absent operand gives NaN
PwrGe(bike, c) ==
    LET p == bike.power  w == bike.kerbWeight
    IN  IF p = Undef \/ w = Undef THEN FALSE
        ELSE IF w > 0 THEN 100 * p >= c * w
        ELSE IF w < 0 THEN 100 * p <= c * w
        ELSE p > 0

PwrGt(bike, c) ==
    LET p == bike.power  w == bike.kerbWeight
    IN  IF p = Undef \/ w = Undef THEN FALSE
        ELSE IF w > 0 THEN 100 * p > c * w
        ELSE IF w < 0 THEN 100 * p < c * w
        ELSE p > 0

PwrLe(bike, c) ==
    LET p == bike.power  w == bike.kerbWeight
    IN  IF p = Undef \/ w = Undef THEN FALSE
        ELSE IF w > 0 THEN 100 * p <= c * w
        ELSE IF w < 0 THEN 100 * p >= c * w
        ELSE p < 0

PwrLt(bike, c) ==
    LET p == bike.power  w == bike.kerbWeight
    IN  IF p = Undef \/ w = Undef THEN FALSE
        ELSE IF w > 0 THEN 100 * p < c * w
        ELSE IF w < 0 THEN 100 * p > c * w
        ELSE p < 0

scoreDailyTrafficEase(bike) ==
    LET weight == IF Lt(bike.kerbWeight, 140) THEN Score(2, 0)
                  ELSE IF Lt(bike.kerbWeight, 160) THEN Score(1, 2)
                  ELSE IF Lt(bike.kerbWeight, 175) THEN Score(0, 2)
                  ELSE IF Gt(bike.kerbWeight, 200) THEN -Score(1, 2)
                  ELSE IF Gt(bike.kerbWeight, 185) THEN -Score(0, 2)
                  ELSE 0
        seat   == IF Lt(bike.seatHeight, 770) THEN Score(1, 0)
                  ELSE IF Lt(bike.seatHeight, 790) THEN Score(0, 2)
                  ELSE IF Gt(bike.seatHeight, 830) THEN -Score(1, 0)
                  ELSE IF Gt(bike.seatHeight, 810) THEN -Score(0, 2)
                  ELSE 0
        pwr    == IF PwrGe(bike, 6) /\ PwrLe(bike, 10) THEN Score(1, 0)
                  ELSE IF PwrGt(bike, 12) THEN -Score(0, 2)
                  ELSE 0
        engine == IF Lt(bike.engineCC, 250) THEN Score(0, 2)
                  ELSE IF Gt(bike.engineCC, 500) THEN -Score(0, 2)
                  ELSE 0
    IN  clamp(roundHalf(Score(5, 0) + weight + seat + pwr + engine),
              Score(1, 0), Score(10, 0))

scoreBrakingSafetyConfidence(bike) ==
    LET front     == IF bike.frontBrake = "disc" THEN Score(2, 0) ELSE 0
        rear      == IF bike.rearBrake = "disc" THEN Score(1, 0) ELSE 0
        abs       == IF bike.absType = "dual-channel" THEN Score(3, 0)
                     ELSE IF bike.absType = "single-channel" THEN Score(1, 2)
                     ELSE 0
        rearTyre  == IF Ge(bike.rearTyreWidth, 150) THEN Score(0, 2)
                     ELSE IF Ge(bike.rearTyreWidth, 140) THEN Score(0, 1)
                     ELSE 0
        frontTyre == IF Ge(bike.frontTyreWidth, 120) THEN Score(0, 2)
                     ELSE IF Ge(bike.frontTyreWidth, 110) THEN Score(0, 1)
                     ELSE 0
    IN  clamp(roundHalf(Score(3, 0) + front + rear + abs + rearTyre + frontTyre),
              Score(1, 0), Score(10, 0))

scorePrimaryPillionComfort(bike, pillionMode) ==
    LET travelSet  == TruthyNum(bike.rearSuspensionTravel)
        suspension == IF bike.rearSuspension = "monoshock" THEN Score(1, 0) ELSE 0
        travel     == IF travelSet /\ bike.rearSuspensionTravel >= 130 THEN Score(1, 0)
                      ELSE IF travelSet /\ bike.rearSuspensionTravel >= 110
                           THEN Score(0, 2)
                      ELSE 0
        weight     == IF Ge(bike.kerbWeight, 180) THEN Score(1, 0)
                      ELSE IF Ge(bike.kerbWeight, 165) THEN Score(0, 2)
                      ELSE IF Lt(bike.kerbWeight, 140) THEN -Score(0, 2)
                      ELSE 0
        wheelbase  == IF Ge(bike.wheelbase, 1420) THEN Score(1, 0)
                      ELSE IF Ge(bike.wheelbase, 1380) THEN Score(0, 2)
                      ELSE IF Lt(bike.wheelbase, 1320) THEN -Score(0, 2)
                      ELSE 0
        seat       == IF Lt(bike.seatHeight, 790) THEN Score(0, 2)
                      ELSE IF Gt(bike.seatHeight, 830) THEN -Score(0, 2)
                      ELSE 0
        secondary  == IF pillionMode = "secondary"
                      THEN (IF Ge(bike.kerbWeight, 175) THEN Score(0, 2) ELSE 0)
                         + (IF bike.rearSuspension = "monoshock" THEN Score(0, 2) ELSE 0)
                         + (IF bike.absType = "dual-channel" THEN Score(0, 2) ELSE 0)
                      ELSE 0
    IN  clamp(roundHalf(Score(5, 0) + suspension + travel + weight + wheelbase
                        + seat + secondary),
              Score(1, 0), Score(10, 0))

scoreHighwayStability(bike) ==
    LET wheelbase == IF Ge(bike.wheelbase, 1430) THEN Score(1, 2)
                     ELSE IF Ge(bike.wheelbase, 1400) THEN Score(1, 0)
                     ELSE IF Ge(bike.wheelbase, 1370) THEN Score(0, 2)
                     ELSE IF Lt(bike.wheelbase, 1320) THEN -Score(1, 0)
                     ELSE 0
        weight    == IF Ge(bike.kerbWeight, 180) THEN Score(1, 0)
                     ELSE IF Ge(bike.kerbWeight, 165) THEN Score(0, 2)
                     ELSE IF Lt(bike.kerbWeight, 145) THEN -Score(0, 2)
                     ELSE 0
        power     == IF Ge(bike.power, 35) THEN Score(1, 0)
                     ELSE IF Ge(bike.power, 25) THEN Score(0, 2)
                     ELSE IF Lt(bike.power, 18) THEN -Score(0, 2)
                     ELSE 0
        rearTyre  == IF Ge(bike.rearTyreWidth, 150) THEN Score(0, 2)
                     ELSE IF Ge(bike.rearTyreWidth, 140) THEN Score(0, 1)
                     ELSE 0
    IN  clamp(roundHalf(Score(5, 0) + wheelbase + weight + power + rearTyre),
              Score(1, 0), Score(10, 0))

scoreRiderComfort(bike) ==
    LET handlebar  == IF bike.handlebarType = "raised" THEN Score(1, 0)
                      ELSE IF bike.handlebarType = "standard" THEN Score(0, 2)
                      ELSE IF bike.handlebarType = "clip-on" THEN -Score(1, 0)
                      ELSE 0
        seat       == IF Ge(bike.seatHeight, 780) /\ Le(bike.seatHeight, 820)
                      THEN Score(0, 2)
                      ELSE IF Gt(bike.seatHeight, 840) THEN -Score(0, 2)
                      ELSE 0
        fuel       == IF Ge(bike.fuelCapacity, 15) THEN Score(1, 0)
                      ELSE IF Ge(bike.fuelCapacity, 12) THEN Score(0, 2)
                      ELSE IF Lt(bike.fuelCapacity, 10) THEN -Score(0, 2)
                      ELSE 0
        suspension == IF bike.rearSuspension = "monoshock" THEN Score(0, 2) ELSE 0
        clearance  == IF Ge(bike.groundClearance, 180) THEN Score(0, 2)
                      ELSE IF Ge(bike.groundClearance, 160) THEN Score(0, 1)
                      ELSE IF Lt(bike.groundClearance, 140) THEN -Score(0, 2)
                      ELSE 0
    IN  clamp(roundHalf(Score(5, 0) + handlebar + seat + fuel + suspension + clearance),
              Score(1, 0), Score(10, 0))

\* for a record whose frontSuspension is a string (toLowerCase of undefined throws)
scoreSuspensionCompliance(bike) ==
    LET travelSet  == TruthyNum(bike.rearSuspensionTravel)
        suspension == IF bike.rearSuspension = "monoshock" THEN Score(1, 2)
                      ELSE IF bike.rearSuspension = "twin" THEN Score(0, 2)
                      ELSE 0
        travel     == IF travelSet /\ bike.rearSuspensionTravel >= 140 THEN Score(1, 0)
                      ELSE IF travelSet /\ bike.rearSuspensionTravel >= 120
                           THEN Score(0, 2)
                      ELSE IF travelSet /\ bike.rearSuspensionTravel < 100
                           THEN -Score(0, 2)
                      ELSE 0
        front      == IF LowerIncludes(bike.frontSuspension, "usd") THEN Score(1, 0)
                      ELSE IF LowerIncludes(bike.frontSuspension, "telescopic")
                           THEN Score(0, 1)
                      ELSE 0
        clearance  == IF Ge(bike.groundClearance, 200) THEN Score(1, 0)
                      ELSE IF Ge(bike.groundClearance, 175) THEN Score(0, 2)
                      ELSE IF Ge(bike.groundClearance, 160) THEN Score(0, 1)
                      ELSE IF Lt(bike.groundClearance, 140) THEN -Score(1, 0)
                      ELSE 0
    IN  clamp(roundHalf(Score(5, 0) + suspension + travel + front + clearance),
              Score(1, 0), Score(10, 0))

scoreFunEngagement(bike) ==
    LET pwr       == IF PwrGe(bike, 12) THEN Score(2, 0)
                     ELSE IF PwrGe(bike, 10) THEN Score(1, 2)
                     ELSE IF PwrGe(bike, 8) THEN Score(1, 0)
                     ELSE IF PwrGe(bike, 6) THEN Score(0, 2)
                     ELSE IF PwrLt(bike, 5) THEN -Score(0, 2)
                     ELSE 0
        engine    == IF Ge(bike.engineCC, 400) THEN Score(1, 0)
                     ELSE IF Ge(bike.engineCC, 300) THEN Score(0, 2)
                     ELSE IF Lt(bike.engineCC, 200) THEN -Score(0, 2)
                     ELSE 0
        weight    == IF Lt(bike.kerbWeight, 160) THEN Score(0, 2)
                     ELSE IF Gt(bike.kerbWeight, 200) THEN -Score(0, 2)
                     ELSE 0
        handlebar == IF bike.handlebarType = "clip-on" THEN Score(0, 2) ELSE 0
    IN  clamp(roundHalf(Score(5, 0) + pwr + engine + weight + handlebar),
              Score(1, 0), Score(10, 0))

\* heatManagementRating is held in quarter points
scoreHeatManagement(bike) ==
    IF /\ TruthyNum(bike.heatManagementRating)
       /\ bike.heatManagementRating >= Score(1, 0)
       /\ bike.heatManagementRating <= Score(10, 0)
    THEN roundHalf(bike.heatManagementRating)
    ELSE LET engine == IF Ge(bike.engineCC, 400) THEN -Score(1, 0)
                       ELSE IF Ge(bike.engineCC, 300) THEN -Score(0, 2)
                       ELSE IF Lt(bike.engineCC, 200) THEN Score(0, 2)
                       ELSE 0
             power  == IF Ge(bike.power, 40) THEN -Score(0, 2)
                       ELSE IF Lt(bike.power, 20) THEN Score(0, 2)
                       ELSE 0
         IN  clamp(roundHalf(Score(6, 0) + engine + power), Score(1, 0), Score(10, 0))

\* for a record whose brand is a string
scoreOwnershipPracticality(bike) ==
    LET brand   == bike.brand
        network == IF \/ LowerIncludes(brand, "hero") \/ LowerIncludes(brand, "honda")
                      \/ LowerIncludes(brand, "tvs") \/ LowerIncludes(brand, "bajaj")
                   THEN Score(1, 2)
                   ELSE IF \/ LowerIncludes(brand, "royal enfield")
                           \/ LowerIncludes(brand, "suzuki")
                        THEN Score(1, 0)
                   ELSE IF LowerIncludes(brand, "yamaha") \/ LowerIncludes(brand, "ktm")
                        THEN Score(0, 2)
                   ELSE IF \/ LowerIncludes(brand, "kawasaki")
                           \/ LowerIncludes(brand, "benelli")
                           \/ LowerIncludes(brand, "triumph")
                        THEN -Score(0, 2)
                   ELSE 0
        price   == IF TruthyNum(bike.exShowroomPrice)
                   THEN IF bike.exShowroomPrice < 150000 THEN Score(0, 2)
                        ELSE IF bike.exShowroomPrice > 300000 THEN -Score(0, 2)
                        ELSE IF bike.exShowroomPrice > 500000 THEN -Score(1, 0)
                        ELSE 0
                   ELSE 0
    IN  clamp(roundHalf(Score(5, 0) + network + price), Score(1, 0), Score(10, 0))

\* for a record whose brand is a string
scoreLongTermSuitability(bike) ==
    LET brand       == bike.brand
        engine      == IF Ge(bike.engineCC, 250) /\ Le(bike.engineCC, 500)
                       THEN Score(1, 0)
                       ELSE IF Ge(bike.engineCC, 200) /\ Le(bike.engineCC, 600)
                            THEN Score(0, 2)
                       ELSE IF Lt(bike.engineCC, 150) THEN -Score(0, 2)
                       ELSE IF Gt(bike.engineCC, 700) THEN -Score(0, 2)
                       ELSE 0
        power       == IF Ge(bike.power, 20) /\ Le(bike.power, 45)
                       THEN Score(0, 2) ELSE 0
        durability  == IF \/ LowerIncludes(brand, "honda")
                          \/ LowerIncludes(brand, "royal enfield")
                       THEN Score(1, 0)
                       ELSE IF LowerIncludes(brand, "hero") \/ LowerIncludes(brand, "tvs")
                            THEN Score(0, 2)
                       ELSE 0
        abs         == IF bike.absType = "dual-channel" THEN Score(0, 2) ELSE 0
        fuel        == IF Ge(bike.fuelCapacity, 14) THEN Score(0, 2) ELSE 0
        versatility == IF Ge(bike.groundClearance, 170) /\ Le(bike.kerbWeight, 185)
                       THEN Score(0, 2) ELSE 0
    IN  clamp(roundHalf(Score(5, 0) + engine + power + durability + abs + fuel
                        + versatility),
              Score(1, 0), Score(10, 0))

NoScores == [k \in FactorKeySet |-> 0]

NoConfidences == [k \in FactorKeySet |-> "low"]

\* bike.frontSuspension.toLowerCase() and bike.brand.toLowerCase() throw a
\* TypeError on a record that lacks the field
ThrowsTypeError(bike) == bike.frontSuspension = NoString \/ bike.brand = NoString

\* the factor scores, or the TypeError thrown while building them
normalizeMotorcycle(bike, pillionMode) ==
    IF ThrowsTypeError(bike)
    THEN [ threw |-> TRUE, scores |-> NoScores ]
    ELSE [ threw  |-> FALSE,
           scores |->
             [ dailyTrafficEase        |-> scoreDailyTrafficEase(bike),
               brakingSafetyConfidence |-> scoreBrakingSafetyConfidence(bike),
               primaryPillionComfort   |-> scorePrimaryPillionComfort(bike, pillionMode),
               highwayStability        |-> scoreHighwayStability(bike),
               riderComfort            |-> scoreRiderComfort(bike),
               suspensionCompliance    |-> scoreSuspensionCompliance(bike),
               funEngagement           |-> scoreFunEngagement(bike),
               heatManagement          |-> scoreHeatManagement(bike),
               ownershipPracticality   |-> scoreOwnershipPracticality(bike),
               longTermSuitability     |-> scoreLongTermSuitability(bike) ] ]

\* mutant: a missing input drops the factor to low at once
Downgrade_ToLow(confidence) == "low"

\* one confidence step down: high -> medium, anything else -> low
Downgrade(confidence) == IF confidence = "high" THEN "medium" ELSE "low"

getFactorConfidences(bike) ==
    LET baseConfidence == bike.confidence
        noTravel       == ~TruthyNum(bike.rearSuspensionTravel)
        noHandlebar    == ~TruthyStr(bike.handlebarType)
    IN  [ dailyTrafficEase        |-> baseConfidence,
          brakingSafetyConfidence |-> baseConfidence,
          primaryPillionComfort   |-> IF noTravel THEN Downgrade(baseConfidence)
                                      ELSE baseConfidence,
          highwayStability        |-> baseConfidence,
          riderComfort            |-> IF noHandlebar THEN Downgrade(baseConfidence)
                                      ELSE baseConfidence,
          suspensionCompliance    |-> IF noTravel THEN Downgrade(baseConfidence)
                                      ELSE baseConfidence,
          funEngagement           |-> IF noHandlebar THEN Downgrade(baseConfidence)
                                      ELSE baseConfidence,
          heatManagement          |-> IF TruthyNum(bike.heatManagementRating)
                                      THEN baseConfidence ELSE "low",
          ownershipPracticality   |-> "medium",
          longTermSuitability     |-> "medium" ]

(***************************************************************************)
(* Weight manager and scoring engine (engine/scoring)                      *)
(***************************************************************************)
\* Object.values(weights).reduce((sum, w) => sum + w, 0), from the state of
\* the reduction before the value at position acc.i
RECURSIVE SumWeights(_, _)
SumWeights(weights, acc) ==
    IF acc.i > Len(FactorKeys) THEN acc.sum
    ELSE SumWeights(weights,
                    [ i   |-> acc.i + 1,
                      sum |-> DAdd(acc.sum, weights[FactorKeys[acc.i]]) ])

TotalWeight(weights) == SumWeights(weights, [i |-> 1, sum |-> Num0])

\* mutant: the zero-sum guard is missing its fallback
DivideByTotal_NoDefault(weights, total) ==
    IF IsZero(total) THEN weights
    ELSE [k \in FactorKeySet |-> DDiv(weights[k], total)]

\* mutant: divides by the number of factors instead of the sum
DivideByTotal_ByCount(weights, total) ==
    IF IsZero(total) THEN DEFAULT_WEIGHTS
    ELSE [k \in FactorKeySet |-> DDiv(weights[k], DInt(Len(FactorKeys)))]

\* normalizeWeights once its total is known
DivideByTotal(weights, total) ==
    IF IsZero(total) THEN DEFAULT_WEIGHTS
    ELSE [k \in FactorKeySet |-> DDiv(weights[k], total)]

normalizeWeights(weights) == DivideByTotal(weights, TotalWeight(weights))

\* validateWeights of engine/scoring: Math.abs(total - 1.0) < 0.01
validateWeights(weights) ==
    DLt(DAbs(DSub(TotalWeight(weights), Num1)), Num0_01)

\* the loop of calculateFinalScore, from its state before factorKeys[acc.i]
RECURSIVE WeightedLoop(_, _, _)
WeightedLoop(factorScores, weights, acc) ==
    IF acc.i > Len(FactorKeys) THEN acc
    ELSE WeightedLoop(factorScores, weights,
             [ i           |-> acc.i + 1,
               weightedSum |-> DAdd(acc.weightedSum,
                                    DMul(ScoreToNumber(factorScores[FactorKeys[acc.i]]),
                                         weights[FactorKeys[acc.i]])),
               totalWeight |-> DAdd(acc.totalWeight, weights[FactorKeys[acc.i]]) ])

\* mutant: the weighted sum is not divided by the total weight
NormalizedScore_NoDivide(acc) == acc.weightedSum

\* totalWeight > 0 ? weightedSum / totalWeight : 0
NormalizedScore(acc) ==
    IF DLt(Num0, acc.totalWeight) THEN DDiv(acc.weightedSum, acc.totalWeight) ELSE Num0

calculateFinalScore(factorScores, weights) ==
    MathRound(DMul(NormalizedScore(
                       WeightedLoop(factorScores, weights,
                                    [i |-> 1, weightedSum |-> Num0, totalWeight |-> Num0])),
                   Num10))

NoScore == -1

\* the object scoreMotorcycle returns for the normalized weights and the
\* result of the normalizer, or the TypeError the normalizer threw
ScoredFrom(motorcycle, normalizedWeights, normalized) ==
    IF normalized.threw
    THEN [ threw        |-> TRUE,
           motorcycle   |-> motorcycle,
           factorScores |-> NoScores,
           finalScore   |-> NoScore,
           rank         |-> 0,
           confidences  |-> NoConfidences ]
    ELSE [ threw        |-> FALSE,
           motorcycle   |-> motorcycle,
           factorScores |-> normalized.scores,
           finalScore   |-> calculateFinalScore(normalized.scores, normalizedWeights),
           rank         |-> 0,
           confidences  |-> getFactorConfidences(motorcycle) ]

scoreMotorcycle(motorcycle, weights, pillionMode) ==
    ScoredFrom(motorcycle, normalizeWeights(weights),
               normalizeMotorcycle(motorcycle, pillionMode))

\* mutant: an element is placed in front of the elements it ties with
RECURSIVE InsertDescending_Unstable(_, _, _)
InsertDescending_Unstable(sorted, x, field) ==
    IF sorted = <<>> THEN << x >>
    ELSE IF Head(sorted)[field] > x[field]
         THEN << Head(sorted) >> \o InsertDescending_Unstable(Tail(sorted), x, field)
         ELSE << x >> \o sorted

\* Array.prototype.sort with the comparator (a, b) => b[field] - a[field]:
\* the sort is stable, so the result is the one built by inserting each element,
\* in array order, behind every element that does not compare after it
RECURSIVE InsertDescending(_, _, _)
InsertDescending(sorted, x, field) ==
    IF sorted = <<>> THEN << x >>
    ELSE IF Head(sorted)[field] >= x[field]
         THEN << Head(sorted) >> \o InsertDescending(Tail(sorted), x, field)
         ELSE << x >> \o sorted

RECURSIVE SortDescending(_, _)
SortDescending(items, field) ==
    IF items = <<>> THEN <<>>
    ELSE InsertDescending(SortDescending(SubSeq(items, 1, Len(items) - 1), field),
                          items[Len(items)], field)

\* mutant: dense ranking, the rank after a tie is the next integer
RECURSIVE AssignRanks_Dense(_, _)
AssignRanks_Dense(scoredBikes, i) ==
    IF i = 0 THEN << <<>>, 1 >>
    ELSE LET before      == AssignRanks_Dense(scoredBikes, i - 1)
             currentRank == IF i > 1 /\ scoredBikes[i].finalScore
                                        < scoredBikes[i - 1].finalScore
                            THEN before[2] + 1 ELSE before[2]
         IN  << Append(before[1], [scoredBikes[i] EXCEPT !.rank = currentRank]),
                currentRank >>

\* the rank loop of scoreAndRankMotorcycles over entries 1..i:
\* << the entries with their ranks, currentRank >>
RECURSIVE AssignRanks(_, _)
AssignRanks(scoredBikes, i) ==
    IF i = 0 THEN << <<>>, 1 >>
    ELSE LET before      == AssignRanks(scoredBikes, i - 1)
             currentRank == IF i > 1 /\ scoredBikes[i].finalScore
                                        < scoredBikes[i - 1].finalScore
                            THEN i ELSE before[2]
         IN  << Append(before[1], [scoredBikes[i] EXCEPT !.rank = currentRank]),
                currentRank >>

\* the sorted array after the rank loop
RankSorted(sorted) == AssignRanks(sorted, Len(sorted))[1]

\* the sort and the rank loop on the mapped array, or the TypeError thrown
\* while mapping one of the records
RankScored(scoredBikes) ==
    IF \E i \in DOMAIN scoredBikes : scoredBikes[i].threw
    THEN [ threw |-> TRUE, bikes |-> <<>> ]
    ELSE [ threw |-> FALSE, bikes |-> RankSorted(SortDescending(scoredBikes, "finalScore")) ]

scoreAndRankMotorcycles(motorcycles, weights, pillionMode) ==
    RankScored([i \in DOMAIN motorcycles |->
                   scoreMotorcycle(motorcycles[i], weights, pillionMode)])

factorLabels ==
    [ dailyTrafficEase        |-> "Daily Traffic Ease",
      brakingSafetyConfidence |-> "Braking & Safety",
      primaryPillionComfort   |-> "Pillion Comfort",
      highwayStability        |-> "Highway Stability",
      riderComfort            |-> "Rider Comfort",
      suspensionCompliance    |-> "Suspension Quality",
      funEngagement           |-> "Fun & Engagement",
      heatManagement          |-> "Heat Management",
      ownershipPracticality   |-> "Ownership Practicality",
      longTermSuitability     |-> "Long-Term Suitability" ]

\* mutant: any positive difference names a winner
CompareFactor_NoBand(bike1, bike2, factor) ==
    LET score1 == bike1.factorScores[factor]
        score2 == bike2.factorScores[factor]
        diff   == score1 - score2
    IN  [ factor     |-> factor,
          label      |-> factorLabels[factor],
          bike1Score |-> score1,
          bike2Score |-> score2,
          difference |-> Abs(diff),
          winner     |-> IF diff > 0 THEN "bike1"
                         ELSE IF diff < 0 THEN "bike2" ELSE "tie" ]

\* mutant: the difference keeps its sign
CompareFactor_Signed(bike1, bike2, factor) ==
    LET score1 == bike1.factorScores[factor]
        score2 == bike2.factorScores[factor]
        diff   == score1 - score2
    IN  [ factor     |-> factor,
          label      |-> factorLabels[factor],
          bike1Score |-> score1,
          bike2Score |-> score2,
          difference |-> diff,
          winner     |-> IF diff > Score(0, 1) THEN "bike1"
                         ELSE IF diff < -Score(0, 1) THEN "bike2" ELSE "tie" ]

\* one pass of the loop of compareScores: the entry pushed for a factor
CompareFactor(bike1, bike2, factor) ==
    LET score1 == bike1.factorScores[factor]
        score2 == bike2.factorScores[factor]
        diff   == score1 - score2
    IN  [ factor     |-> factor,
          label      |-> factorLabels[factor],
          bike1Score |-> score1,
          bike2Score |-> score2,
          difference |-> Abs(diff),
          winner     |-> IF diff > Score(0, 1) THEN "bike1"
                         ELSE IF diff < -Score(0, 1) THEN "bike2" ELSE "tie" ]

compareScores(bike1, bike2) ==
    SortDescending([i \in DOMAIN FactorKeys |-> CompareFactor(bike1, bike2, FactorKeys[i])],
                   "difference")

(***************************************************************************)
(* Weights validation (engine/validator)                                   *)
(***************************************************************************)
\* the check of the sum: an error beyond 0.05, else a warning beyond 0.01;
\* the state of the validation before the loop over the entries
SumIssues(off) ==
    IF DLt(Num0_05, off)
    THEN [ i |-> 1, errors |-> << Issue("INVALID_WEIGHT_SUM", NoField) >>,
           warnings |-> <<>> ]
    ELSE IF DLt(Num0_01, off)
    THEN [ i |-> 1, errors |-> <<>>,
           warnings |-> << Issue("WEIGHT_SUM_INEXACT", NoField) >> ]
    ELSE [ i |-> 1, errors |-> <<>>, warnings |-> <<>> ]

\* the loop over Object.entries(weights), from its state before entry acc.i
RECURSIVE WeightEntryIssues(_, _)
WeightEntryIssues(weights, acc) ==
    IF acc.i > Len(FactorKeys) THEN acc
    ELSE WeightEntryIssues(weights,
             [ i        |-> acc.i + 1,
               errors   |-> acc.errors
                            \o PushIf(DLt(weights[FactorKeys[acc.i]], Num0),
                                      "NEGATIVE_WEIGHT", FactorKeys[acc.i]),
               warnings |-> acc.warnings
                            \o PushIf(DLt(Num0_5, weights[FactorKeys[acc.i]]),
                                      "HIGH_WEIGHT", FactorKeys[acc.i]) ])

\* the check for zero weights
ZeroWeightIssues(weights, issues) ==
    [ errors   |-> issues.errors,
      warnings |-> issues.warnings
                   \o PushIf(Cardinality({ k \in FactorKeySet : weights[k] = Num0 }) > 3,
                             "MANY_ZERO_WEIGHTS", NoField) ]

ValidationResult(issues) ==
    [ isValid |-> Len(issues.errors) = 0, warnings |-> issues.warnings,
      errors  |-> issues.errors ]

\* validateWeights of engine/validator (exported as validateWeightsDetailed)
validateWeightsDetailed(weights) ==
    ValidationResult(
        ZeroWeightIssues(weights,
            WeightEntryIssues(weights,
                SumIssues(DAbs(DSub(TotalWeight(weights), Num1))))))

\* the weights if they validate, else a copy of the defaults
getValidWeightsOrDefault(weights) ==
    IF validateWeightsDetailed(weights).isValid THEN weights ELSE DEFAULT_WEIGHTS

(***************************************************************************)
(* Defaulter (engine/validator)                                            *)
(***************************************************************************)
\* value || fallback, for a number and for a string
OrNum(value, fallback) == IF TruthyNum(value) THEN value ELSE fallback

OrStr(value, fallback) == IF TruthyStr(value) THEN value ELSE fallback

\* fillMissingData; uuid is what crypto.randomUUID() returns if it is called
fillMissingData(bike, uuid) ==
    [ id                   |-> OrStr(bike.id, uuid),
      brand                |-> OrStr(bike.brand, "Unknown"),
      model                |-> OrStr(bike.model, "Unknown"),
      engineCC             |-> OrNum(bike.engineCC, 150),
      power                |-> OrNum(bike.power, 10),
      torque               |-> OrNum(bike.torque, 10),
      kerbWeight           |-> OrNum(bike.kerbWeight, 140),
      seatHeight           |-> OrNum(bike.seatHeight, 780),
      wheelbase            |-> OrNum(bike.wheelbase, 1350),
      groundClearance      |-> OrNum(bike.groundClearance, 160),
      fuelCapacity         |-> OrNum(bike.fuelCapacity, 12),
      frontBrake           |-> OrStr(bike.frontBrake, "disc"),
      rearBrake            |-> OrStr(bike.rearBrake, "drum"),
      absType              |-> OrStr(bike.absType, "none"),
      frontTyreWidth       |-> OrNum(bike.frontTyreWidth, 100),
      rearTyreWidth        |-> OrNum(bike.rearTyreWidth, 130),
      frontSuspension      |-> OrStr(bike.frontSuspension, "telescopic"),
      rearSuspension       |-> OrStr(bike.rearSuspension, "twin"),
      rearSuspensionTravel |-> bike.rearSuspensionTravel,
      handlebarType        |-> bike.handlebarType,
      exShowroomPrice      |-> bike.exShowroomPrice,
      heatManagementRating |-> bike.heatManagementRating,
      confidence           |-> OrStr(bike.confidence, "low"),
      searchQuery          |-> OrStr(bike.searchQuery, "") ]

(***************************************************************************)
(* Inputs of the weight harness                                            *)
(***************************************************************************)
\* the weights of the last five factors, in hundredths
OtherWeights(g) ==
    CASE g = "zero"    -> [s |-> 0,  f |-> 0, t |-> 0, o |-> 0, l |-> 0]
      [] g = "default" -> [s |-> 10, f |-> 8, t |-> 5, o |-> 8, l |-> 7]
      [] g = "small"   -> [s |-> 1,  f |-> 1, t |-> 1, o |-> 1, l |-> 3]

\* a weight vector written in hundredths
WeightHundredths(d, b, p, h, r, g) ==
    [ dailyTrafficEase        |-> d,
      brakingSafetyConfidence |-> b,
      primaryPillionComfort   |-> p,
      highwayStability        |-> h,
      riderComfort            |-> r,
      suspensionCompliance    |-> OtherWeights(g).s,
      funEngagement           |-> OtherWeights(g).f,
      heatManagement          |-> OtherWeights(g).t,
      ownershipPracticality   |-> OtherWeights(g).o,
      longTermSuitability     |-> OtherWeights(g).l ]

\* weight vectors: the defaults, zeros, small values, a dominant weight (0.9),
\* negative weights, entries that cancel, and sums at and around 0.95, 0.99,
\* 1, 1.01, 1.02 and 1.05
WeightVectors ==
    { WeightsOf(v) : v \in
        { WeightHundredths(d, b, p, h, 10, g) :
            d \in {0, 12, 90, -5}, b \in {0, 15, 2}, p \in {0, 15}, h \in {0, 10},
            g \in {"zero", "default", "small"} }
        \cup { WeightHundredths(d, b, 0, 0, 0, "zero") :
                 d \in {0, 50, 90, -50}, b \in {0, 12, 45, 46, 49, 50, 51, 55, 56} }
        \cup { WeightHundredths(-5, 2, 2, 1, 0, "zero"),
               WeightHundredths(10, 20, -30, 0, 0, "zero"),
               WeightHundredths(10, 20, -10, -20, 0, "zero"),
               WeightHundredths(50, 50, 50, 50, 50, "zero") } }

\* the weight vectors handed to the scoring engine
ScoringWeights ==
    { WeightsOf(v) : v \in
        { WeightHundredths(d, b, 15, 10, 10, g) :
            d \in {0, 12, 90, -5}, b \in {0, 15}, g \in {"zero", "default", "small"} }
        \cup { WeightHundredths(0, 0, 0, 0, 0, "zero"),
               WeightHundredths(50, 50, 50, 50, 50, "zero"),
               WeightHundredths(0, 0, 0, 0, 0, "small") } }

UniformScores(q) == [k \in FactorKeySet |-> q]

\* factor score sets within [1,10]: the extremes and two mixed sets
ScoreSets ==
    { UniformScores(Score(1, 0)), UniformScores(Score(10, 0)),
      [UniformScores(Score(5, 0)) EXCEPT !["dailyTrafficEase"] = Score(10, 0),
                                         !["heatManagement"] = Score(1, 0)],
      [UniformScores(Score(7, 2)) EXCEPT !["brakingSafetyConfidence"] = Score(3, 0),
                                         !["funEngagement"] = Score(9, 2)] }

ZeroWeights == [k \in FactorKeySet |-> Num0]

NoValidation == [isValid |-> FALSE, warnings |-> <<>>, errors |-> <<>>]

(***************************************************************************)
(* Inputs of the validator / normalizer harness: records assembled from    *)
(* one profile per field group.  The profiles straddle the thresholds of   *)
(* the rule set and include absent, zero and negative values.              *)
(***************************************************************************)
PillionModes == {"primary", "secondary", "none"}

CoreSport     == [engineCC |-> 399,   power |-> 46,    torque |-> 39,    kerbWeight |-> 168]
CoreCommuter  == [engineCC |-> 110,   power |-> 8,     torque |-> 9,     kerbWeight |-> 112]
CoreCruiser   == [engineCC |-> 349,   power |-> 20,    torque |-> 27,    kerbWeight |-> 195]
CoreTwin      == [engineCC |-> 649,   power |-> 67,    torque |-> 64,    kerbWeight |-> 211]
CoreOversize  == [engineCC |-> 2300,  power |-> 221,   torque |-> Undef, kerbWeight |-> 410]
CoreStreet    == [engineCC |-> 199,   power |-> 25,    torque |-> 18,    kerbWeight |-> 159]
CoreAbsent    == [engineCC |-> Undef, power |-> Undef, torque |-> Undef, kerbWeight |-> Undef]
CoreInvalid   == [engineCC |-> 0,     power |-> 25,    torque |-> 0,     kerbWeight |-> -5]

CoreProfiles ==
    { CoreSport, CoreCommuter, CoreCruiser, CoreTwin, CoreOversize, CoreStreet,
      CoreAbsent, CoreInvalid }

DimAbsent  == [seatHeight |-> Undef, wheelbase |-> Undef, groundClearance |-> Undef,
               fuelCapacity |-> Undef]
DimSmall   == [seatHeight |-> 765, wheelbase |-> 1300, groundClearance |-> 135,
               fuelCapacity |-> 9]
DimDefault == [seatHeight |-> 780, wheelbase |-> 1350, groundClearance |-> 160,
               fuelCapacity |-> 12]
DimSport   == [seatHeight |-> 820, wheelbase |-> 1380, groundClearance |-> 175,
               fuelCapacity |-> 13]
DimTourer  == [seatHeight |-> 785, wheelbase |-> 1430, groundClearance |-> 170,
               fuelCapacity |-> 15]
DimTall    == [seatHeight |-> 845, wheelbase |-> 1470, groundClearance |-> 220,
               fuelCapacity |-> 20]

DimensionProfiles == { DimAbsent, DimSmall, DimDefault, DimSport, DimTourer, DimTall }

BrakeDrum    == [frontBrake |-> "drum", rearBrake |-> "drum", absType |-> "none",
                 frontTyreWidth |-> 80, rearTyreWidth |-> 100]
BrakeSingle  == [frontBrake |-> "disc", rearBrake |-> "drum", absType |-> "single-channel",
                 frontTyreWidth |-> 110, rearTyreWidth |-> 140]
BrakeDual    == [frontBrake |-> "disc", rearBrake |-> "disc", absType |-> "dual-channel",
                 frontTyreWidth |-> 120, rearTyreWidth |-> 150]
BrakePartial == [frontBrake |-> "disc", rearBrake |-> "disc", absType |-> NoString,
                 frontTyreWidth |-> Undef, rearTyreWidth |-> Undef]
BrakeAbsent  == [frontBrake |-> NoString, rearBrake |-> NoString, absType |-> NoString,
                 frontTyreWidth |-> Undef, rearTyreWidth |-> Undef]

BrakeProfiles == { BrakeDrum, BrakeSingle, BrakeDual, BrakePartial, BrakeAbsent }

SuspAbsent == [frontSuspension |-> NoString, rearSuspension |-> NoString,
               rearSuspensionTravel |-> Undef, handlebarType |-> NoString]
SuspTwin   == [frontSuspension |-> "telescopic", rearSuspension |-> "twin",
               rearSuspensionTravel |-> Undef, handlebarType |-> "standard"]
SuspSport  == [frontSuspension |-> "USD forks", rearSuspension |-> "monoshock",
               rearSuspensionTravel |-> 150, handlebarType |-> "clip-on"]
SuspMono   == [frontSuspension |-> "Telescopic fork", rearSuspension |-> "monoshock",
               rearSuspensionTravel |-> 125, handlebarType |-> "raised"]
SuspOther  == [frontSuspension |-> "Leading link", rearSuspension |-> "other",
               rearSuspensionTravel |-> 90, handlebarType |-> NoString]

SuspLink   == [frontSuspension |-> "Leading link", rearSuspension |-> "other",
               rearSuspensionTravel |-> 105, handlebarType |-> "standard"]

SuspensionProfiles == { SuspAbsent, SuspTwin, SuspSport, SuspMono, SuspOther, SuspLink }

\* heatManagementRating is in quarter points: absent, 7.25, 0, 11, 0.5 and 10
IdentKtm      == [brand |-> "KTM", model |-> "390 Duke", exShowroomPrice |-> 310000,
                  heatManagementRating |-> Undef, confidence |-> "high"]
IdentHonda    == [brand |-> "Honda", model |-> "CB350", exShowroomPrice |-> 120000,
                  heatManagementRating |-> Score(7, 1), confidence |-> "medium"]
IdentEnfield  == [brand |-> "Royal Enfield", model |-> "Classic 350",
                  exShowroomPrice |-> 250000, heatManagementRating |-> 0,
                  confidence |-> "low"]
IdentKawasaki == [brand |-> "Kawasaki", model |-> "Z650", exShowroomPrice |-> 650000,
                  heatManagementRating |-> Score(11, 0), confidence |-> "high"]
IdentHero     == [brand |-> "Hero", model |-> "Splendor", exShowroomPrice |-> Undef,
                  heatManagementRating |-> Score(0, 2), confidence |-> "medium"]
IdentUnknown  == [brand |-> "Unknown", model |-> "Unknown", exShowroomPrice |-> Undef,
                  heatManagementRating |-> Score(10, 0), confidence |-> "low"]
IdentAbsent   == [brand |-> NoString, model |-> NoString, exShowroomPrice |-> Undef,
                  heatManagementRating |-> Undef, confidence |-> "low"]

IdentityProfiles ==
    { IdentKtm, IdentHonda, IdentEnfield, IdentKawasaki, IdentHero, IdentUnknown,
      IdentAbsent }

\* the Motorcycle record built from one profile of each group
MakeBike(id, core, dim, brake, susp, ident) ==
    [ id                   |-> id,
      brand                |-> ident.brand,
      model                |-> ident.model,
      engineCC             |-> core.engineCC,
      power                |-> core.power,
      torque               |-> core.torque,
      kerbWeight           |-> core.kerbWeight,
      seatHeight           |-> dim.seatHeight,
      wheelbase            |-> dim.wheelbase,
      groundClearance      |-> dim.groundClearance,
      fuelCapacity         |-> dim.fuelCapacity,
      frontBrake           |-> brake.frontBrake,
      rearBrake            |-> brake.rearBrake,
      absType              |-> brake.absType,
      frontTyreWidth       |-> brake.frontTyreWidth,
      rearTyreWidth        |-> brake.rearTyreWidth,
      frontSuspension      |-> susp.frontSuspension,
      rearSuspension       |-> susp.rearSuspension,
      rearSuspensionTravel |-> susp.rearSuspensionTravel,
      handlebarType        |-> susp.handlebarType,
      exShowroomPrice      |-> ident.exShowroomPrice,
      heatManagementRating |-> ident.heatManagementRating,
      confidence           |-> ident.confidence,
      searchQuery          |-> NoString ]

\* a complete, plausible record but for torque, wheelbase and handlebar type
ScenarioPartial ==
    MakeBike("bike-1", [CoreSport EXCEPT !.torque = Undef],
             [DimSport EXCEPT !.wheelbase = Undef], BrakeDual,
             [SuspSport EXCEPT !.handlebarType = NoString], IdentHonda)

Bikes ==
    { MakeBike("bike-1", core, dim, brake, susp, ident) :
        core \in CoreProfiles, dim \in DimensionProfiles, brake \in BrakeProfiles,
        susp \in SuspensionProfiles, ident \in IdentityProfiles }
    \cup { ScenarioPartial }

NoBike == MakeBike(NoString, CoreAbsent, DimAbsent, BrakeAbsent, SuspAbsent, IdentAbsent)

NoNormalization == [threw |-> FALSE, scores |-> NoScores]

NoScored ==
    [ threw |-> FALSE, motorcycle |-> NoBike, factorScores |-> NoScores,
      finalScore |-> NoScore, rank |-> 0, confidences |-> NoConfidences ]

(***************************************************************************)
(* Inputs of the ranker and comparator harnesses                           *)
(***************************************************************************)
\* discovered records with distinct ids; RankTwin has the specifications of
\* RankSport, and RankBare passed validation without a front suspension
RankSport    == MakeBike("bike-1", CoreSport, DimSport, BrakeDual, SuspSport, IdentKtm)
RankTwin     == MakeBike("bike-2", CoreSport, DimSport, BrakeDual, SuspSport, IdentKtm)
RankCommuter == MakeBike("bike-3", CoreCommuter, DimSmall, BrakeDrum, SuspTwin, IdentHero)
RankCruiser  == MakeBike("bike-4", CoreCruiser, DimTourer, BrakeSingle, SuspMono,
                         IdentEnfield)
RankBare     == MakeBike("bike-5", CoreStreet, DimDefault, BrakePartial, SuspAbsent,
                         IdentHonda)

RankPool == { RankSport, RankTwin, RankCommuter, RankCruiser, RankBare }

\* the records handed to scoreMotorcycle
ScoringBikes == { RankSport, RankCommuter, RankCruiser }

\* longest batch handed to the ranker
MaxBatch == 3

\* batches of distinct records, in every order
Batches ==
    UNION { { b \in [1..n -> RankPool] : \A i, j \in 1..n : i # j => b[i] # b[j] } :
            n \in 0..MaxBatch }

BrakingOnly == [ZeroWeights EXCEPT !["brakingSafetyConfidence"] = Num1]

\* slider weights before normalization: every factor at 0.5
AllHalf == [k \in FactorKeySet |-> Num0_5]

RankWeights == { DEFAULT_WEIGHTS, ZeroWeights, BrakingOnly, AllHalf }

\* compareScores is exported and takes any ScoredMotorcycle: the vehicles the
\* engine scores, and vehicles carrying scores a quarter point apart
WithScores(scored, factorScores) == [scored EXCEPT !.factorScores = factorScores]

\* the vehicles the engine scores under the default weights
EngineScored ==
    { scoreMotorcycle(b, DEFAULT_WEIGHTS, m) :
        b \in RankPool \ {RankBare}, m \in PillionModes }

\* score sets a quarter point apart
QuarterScoreSets ==
    { UniformScores(Score(7, 0)), UniformScores(Score(7, 1)),
      [UniformScores(Score(7, 0)) EXCEPT !["funEngagement"] = Score(7, 2),
                                         !["riderComfort"] = Score(6, 3)] }

ScoredVehicles ==
    UNION { {v} \cup (IF v.motorcycle.id = "bike-1"
                      THEN { WithScores(v, fs) : fs \in QuarterScoreSets }
                      ELSE {}) : v \in EngineScored }

(***************************************************************************)
(* Validator / normalizer harness: a caller holding a discovered record    *)
(* validates it and then asks for its factor scores.                       *)
(***************************************************************************)
NActive ==
    /\ nBike \in Bikes
    /\ nMode \in PillionModes
    /\ nStage = "input"
    /\ nValidation = NoValidation
    /\ nResult = NoNormalization
    /\ nConfidences = NoConfidences

\* mutant: a record with warnings is reported invalid
CallValidateMotorcycle_WarningsBlock ==
    /\ nStage = "input"
    /\ nValidation' = [ validateMotorcycle(nBike) EXCEPT
                          !.isValid = /\ Len(validateMotorcycle(nBike).errors) = 0
                                      /\ Len(validateMotorcycle(nBike).warnings) = 0 ]
    /\ nStage' = "validated"
    /\ UNCHANGED <<nBike, nMode, nResult, nConfidences>>
    /\ UNCHANGED nOthers

CallValidateMotorcycle ==
    /\ nStage = "input"
    /\ nValidation' = validateMotorcycle(nBike)
    /\ nStage' = "validated"
    /\ UNCHANGED <<nBike, nMode, nResult, nConfidences>>
    /\ UNCHANGED nOthers

CallNormalizeMotorcycle ==
    /\ nStage = "validated"
    /\ nResult' = normalizeMotorcycle(nBike, nMode)
    /\ nStage' = "normalized"
    /\ UNCHANGED <<nBike, nMode, nValidation, nConfidences>>
    /\ UNCHANGED nOthers

\* scoreMotorcycle goes on to the confidences once the factor scores are there
CallGetFactorConfidences ==
    /\ nStage = "normalized"
    /\ ~nResult.threw
    /\ nConfidences' = getFactorConfidences(nBike)
    /\ nStage' = "assessed"
    /\ UNCHANGED <<nBike, nMode, nValidation, nResult>>
    /\ UNCHANGED nOthers

(***************************************************************************)
(* Weight harness: a caller holding a weight vector calls normalizeWeights *)
(* (once, then again on the result) or validateWeights.                    *)
(***************************************************************************)
WActive ==
    /\ wIn \in WeightVectors
    /\ wStage = "input"
    /\ wOnce = ZeroWeights
    /\ wTwice = ZeroWeights
    /\ wValid = NoValidation
    /\ wAccepted = FALSE

CallNormalizeWeights ==
    /\ wStage = "input"
    /\ wOnce' = normalizeWeights(wIn)
    /\ wStage' = "normalized"
    /\ UNCHANGED <<wIn, wTwice, wValid, wAccepted>>
    /\ UNCHANGED wOthers

CallNormalizeWeightsAgain ==
    /\ wStage = "normalized"
    /\ wTwice' = normalizeWeights(wOnce)
    /\ wStage' = "renormalized"
    /\ UNCHANGED <<wIn, wOnce, wValid, wAccepted>>
    /\ UNCHANGED wOthers

CallValidateWeights ==
    /\ wStage = "input"
    /\ wValid' = validateWeightsDetailed(wIn)
    /\ wStage' = "validated"
    /\ UNCHANGED <<wIn, wOnce, wTwice, wAccepted>>
    /\ UNCHANGED wOthers

\* the same caller then asks the boolean validateWeights of engine/scoring
CallValidateWeightsBoolean ==
    /\ wStage = "validated"
    /\ wAccepted' = validateWeights(wIn)
    /\ wStage' = "checked"
    /\ UNCHANGED <<wIn, wOnce, wTwice, wValid>>
    /\ UNCHANGED wOthers

(***************************************************************************)
(* Scoring harness: a caller holding a weight vector, a factor score set   *)
(* and a record calls calculateFinalScore or scoreMotorcycle.              *)
(***************************************************************************)
SActive ==
    /\ sWeights \in ScoringWeights
    /\ sScores \in ScoreSets
    /\ sBike \in ScoringBikes
    /\ sStage = "input"
    /\ sFinal = NoScore
    /\ sScored = NoScored

CallCalculateFinalScore ==
    /\ sStage = "input"
    /\ sFinal' = calculateFinalScore(sScores, sWeights)
    /\ sStage' = "scored"
    /\ UNCHANGED <<sWeights, sScores, sBike, sScored>>
    /\ UNCHANGED sOthers

CallScoreMotorcycle ==
    /\ sStage = "input"
    /\ sScored' = scoreMotorcycle(sBike, sWeights, "primary")
    /\ sStage' = "bikeScored"
    /\ UNCHANGED <<sWeights, sScores, sBike, sFinal>>
    /\ UNCHANGED sOthers

(***************************************************************************)
(* Ranker harness: the store hands a batch, the weights and the pillion    *)
(* mode to scoreAndRankMotorcycles.                                        *)
(***************************************************************************)
NoRanking == [threw |-> FALSE, bikes |-> <<>>]

RActive ==
    /\ rBatch \in Batches
    /\ rWeights \in RankWeights
    /\ rMode \in PillionModes
    /\ rStage = "input"
    /\ rResult = NoRanking

CallScoreAndRankMotorcycles ==
    /\ rStage = "input"
    /\ rResult' = scoreAndRankMotorcycles(rBatch, rWeights, rMode)
    /\ rStage' = "ranked"
    /\ UNCHANGED <<rBatch, rWeights, rMode>>
    /\ UNCHANGED rOthers

(***************************************************************************)
(* Comparator harness: compareScores on a pair, then on the swapped pair   *)
(***************************************************************************)
CActive ==
    /\ cBike1 \in ScoredVehicles
    /\ cBike2 \in ScoredVehicles
    /\ cStage = "input"
    /\ cForward = <<>>
    /\ cBackward = <<>>

CallCompareScores ==
    /\ cStage = "input"
    /\ cForward' = compareScores(cBike1, cBike2)
    /\ cStage' = "compared"
    /\ UNCHANGED <<cBike1, cBike2, cBackward>>
    /\ UNCHANGED cOthers

CallCompareScoresSwapped ==
    /\ cStage = "compared"
    /\ cBackward' = compareScores(cBike2, cBike1)
    /\ cStage' = "comparedBoth"
    /\ UNCHANGED <<cBike1, cBike2, cForward>>
    /\ UNCHANGED cOthers

(***************************************************************************)
(* Defaulter harness: discovery fills a partial record, validates the      *)
(* filled record again and the scoring engine derives its confidences.     *)
(***************************************************************************)
\* the partial records handed to the defaulter; NoBike has no id
PartialBikes == Bikes \cup { NoBike }

\* identifiers crypto.randomUUID() may return
UUIDs == { "uuid-1", "uuid-2" }

FActive ==
    /\ fBike \in PartialBikes
    /\ fStage = "input"
    /\ fFilled = NoBike
    /\ fValidation = NoValidation
    /\ fConfidences = NoConfidences
    /\ fAgain = NoBike

CallFillMissingData ==
    /\ fStage = "input"
    /\ \E uuid \in UUIDs : fFilled' = fillMissingData(fBike, uuid)
    /\ fStage' = "filled"
    /\ UNCHANGED <<fBike, fValidation, fConfidences, fAgain>>
    /\ UNCHANGED fOthers

CallRevalidate ==
    /\ fStage = "filled"
    /\ fValidation' = validateMotorcycle(fFilled)
    /\ fStage' = "revalidated"
    /\ UNCHANGED <<fBike, fFilled, fConfidences, fAgain>>
    /\ UNCHANGED fOthers

CallAssessFilled ==
    /\ fStage = "revalidated"
    /\ fConfidences' = getFactorConfidences(fFilled)
    /\ fStage' = "assessed"
    /\ UNCHANGED <<fBike, fFilled, fValidation, fAgain>>
    /\ UNCHANGED fOthers

\* a second call of fillMissingData on the same partial record
CallFillMissingDataAgain ==
    /\ fStage = "assessed"
    /\ \E uuid \in UUIDs : fAgain' = fillMissingData(fBike, uuid)
    /\ fStage' = "refilled"
    /\ UNCHANGED <<fBike, fFilled, fValidation, fConfidences>>
    /\ UNCHANGED fOthers

(***************************************************************************)
(* Discovery agent (agents/discovery): Gemini results become Motorcycle    *)
(* records, validated and filled before they are returned.  A message is   *)
(* modelled by the code of its issue, a joined error string by the         *)
(* sequence of its messages.                                               *)
(***************************************************************************)
\* what discoverBike(query) comes to: a BikeDiscoveryResult, or a throw
Found(result) == [threw |-> FALSE, result |-> result]

GeminiError == [threw |-> TRUE, result |-> NoBike]

\* issues.map((e) => e.message)
Messages(issues) == [i \in DOMAIN issues |-> issues[i].code]

\* uuid is what crypto.randomUUID() returns; heatManagementRating is not copied
convertToMotorcycle(result, query, uuid) ==
    [result EXCEPT !.id = uuid, !.heatManagementRating = Undef, !.searchQuery = query]

\* a DiscoveryResult without / with a motorcycle
Failure(error, warnings, query) ==
    [ success |-> FALSE, motorcycle |-> NoBike, error |-> error,
      warnings |-> warnings, query |-> query ]

Success(motorcycle, warnings, query) ==
    [ success |-> TRUE, motorcycle |-> motorcycle, error |-> <<>>,
      warnings |-> warnings, query |-> query ]

\* discoverMotorcycle from the validation of the converted record on
ValidatedSingle(motorcycle, validation, query) ==
    IF ~validation.isValid
    THEN IF ~validateMotorcycle(fillMissingData(motorcycle, motorcycle.id)).isValid
         THEN Failure(Messages(validation.errors), Messages(validation.warnings), query)
         ELSE Success(fillMissingData(motorcycle, motorcycle.id),
                      Messages(validation.warnings)
                      \o << "Some data was auto-filled due to missing values" >>,
                      query)
    ELSE Success(motorcycle,
                 Messages(validation.warnings)
                 \o ( IF motorcycle.confidence = "low"
                      THEN << "Data confidence is low - verify specifications manually" >>
                      ELSE <<>> ),
                 query)

discoverMotorcycle(configured, gemini, query, uuid) ==
    IF ~configured
    THEN Failure(<< "Gemini API is not configured" >>, <<>>, query)
    ELSE IF gemini.threw
    THEN Failure(<< "Error.message" >>, <<>>, query)
    ELSE ValidatedSingle(convertToMotorcycle(gemini.result, query, uuid),
                         validateMotorcycle(convertToMotorcycle(gemini.result, query, uuid)),
                         query)

\* the body of the loop of discoverMotorcycles over the Gemini results
ValidatedEntry(motorcycle, validation, query) ==
    IF ~validation.isValid
    THEN Success(fillMissingData(motorcycle, motorcycle.id),
                 Messages(validation.warnings) \o << "Some data was auto-filled" >>,
                 query)
    ELSE Success(motorcycle, Messages(validation.warnings), query)

BatchEntry(gemini, query, uuid) ==
    IF gemini.threw
    THEN Failure(<< "Error.message" >>, <<>>, query)
    ELSE ValidatedEntry(convertToMotorcycle(gemini.result, query, uuid),
                        validateMotorcycle(convertToMotorcycle(gemini.result, query, uuid)),
                        query)

\* results.filter((r) => r.success).length
CountSuccessful(results) == Cardinality({ i \in DOMAIN results : results[i].success })

\* a BatchDiscoveryResult; totalTime is a difference of clock readings and is
\* left out
BatchResult(results) ==
    [ results |-> results, successful |-> CountSuccessful(results),
      failed |-> Len(results) - CountSuccessful(results) ]

\* discoverMotorcycles; order is the order in which the parallel discoveries
\* settled, which is the order of the Map it iterates over
discoverMotorcycles(configured, geminiResults, queries, uuids, order) ==
    IF ~configured
    THEN BatchResult([ i \in DOMAIN queries |->
                         Failure(<< "Gemini API is not configured" >>, <<>>, queries[i]) ])
    ELSE BatchResult([ i \in DOMAIN queries |->
                         BatchEntry(geminiResults[order[i]], queries[order[i]],
                                    uuids[i]) ])

\* query.toLowerCase().trim(), on the queries of the model
LowerTrim(query) ==
    CASE query = "KTM Duke 390"  -> "ktm duke 390"
      [] query = " honda cb350 " -> "honda cb350"
      [] OTHER                   -> query

\* MOCK_BIKES: the entries for the KTM, the Royal Enfield and the Honda (their
\* aliases hold the same records)
MockKtm ==
    MakeBike(NoString,
             [engineCC |-> 399, power |-> 46, torque |-> 39, kerbWeight |-> 168],
             [seatHeight |-> 820, wheelbase |-> 1357, groundClearance |-> 183,
              fuelCapacity |-> 15],
             [frontBrake |-> "disc", rearBrake |-> "disc", absType |-> "cornering-abs",
              frontTyreWidth |-> 110, rearTyreWidth |-> 150],
             [frontSuspension |-> "WP APEX USD 43mm Adjustable",
              rearSuspension |-> "WP APEX Monoshock Adjustable",
              rearSuspensionTravel |-> 150, handlebarType |-> "standard"],
             [brand |-> "KTM", model |-> "390 Duke", exShowroomPrice |-> 330000,
              heatManagementRating |-> Undef, confidence |-> "high"])

MockHimalayan ==
    MakeBike(NoString,
             [engineCC |-> 452, power |-> 40, torque |-> 40, kerbWeight |-> 196],
             [seatHeight |-> 825, wheelbase |-> 1465, groundClearance |-> 230,
              fuelCapacity |-> 17],
             [frontBrake |-> "disc", rearBrake |-> "disc", absType |-> "switchable-abs",
              frontTyreWidth |-> 90, rearTyreWidth |-> 140],
             [frontSuspension |-> "Showa USD 43mm", rearSuspension |-> "monoshock",
              rearSuspensionTravel |-> 200, handlebarType |-> "raised"],
             [brand |-> "Royal Enfield", model |-> "Himalayan 450",
              exShowroomPrice |-> 298000, heatManagementRating |-> Undef,
              confidence |-> "high"])

MockHonda ==
    MakeBike(NoString,
             [engineCC |-> 348, power |-> 21, torque |-> 30, kerbWeight |-> 181],
             [seatHeight |-> 800, wheelbase |-> 1441, groundClearance |-> 166,
              fuelCapacity |-> 15],
             [frontBrake |-> "disc", rearBrake |-> "disc", absType |-> "dual-channel",
              frontTyreWidth |-> 100, rearTyreWidth |-> 130],
             [frontSuspension |-> "Telescopic", rearSuspension |-> "twin",
              rearSuspensionTravel |-> 105, handlebarType |-> "raised"],
             [brand |-> "Honda", model |-> "CB350", exShowroomPrice |-> 220000,
              heatManagementRating |-> Undef, confidence |-> "high"])

MOCK_BIKES ==
    [ key \in { "ktm duke 390", "royal enfield himalayan", "honda cb350" } |->
        CASE key = "ktm duke 390"            -> MockKtm
          [] key = "royal enfield himalayan" -> MockHimalayan
          [] key = "honda cb350"             -> MockHonda ]

discoverMotorcycleMock(query, uuid) ==
    IF LowerTrim(query) \in DOMAIN MOCK_BIKES
    THEN Success(fillMissingData([MOCK_BIKES[LowerTrim(query)] EXCEPT
                                      !.searchQuery = query], uuid),
                 << "Using mock data - Gemini API not configured" >>, query)
    ELSE Failure(<< "No mock data available" >>, <<>>, query)

(***************************************************************************)
(* Discovery harness: a caller holding queries, with the outcome Gemini    *)
(* has for each, takes the single path, the batch path or the mock path.   *)
(***************************************************************************)
\* the most queries one discovery is asked for
MaxQueries == 2

DiscoveryQueries == { "KTM Duke 390", " honda cb350 ", "royal enfield himalayan",
                      "yamaha r15" }

\* outcomes of discoverBike: a valid result, one with warnings only, one with
\* low confidence, one that fillMissingData completes, one with a negative
\* weight, and a throw
GeminiOutcomes ==
    { Found(MakeBike(NoString, CoreSport, DimSport, BrakeDual, SuspSport, IdentKtm)),
      Found(ScenarioPartial),
      Found(MakeBike(NoString, CoreCruiser, DimDefault, BrakeSingle, SuspTwin,
                     IdentEnfield)),
      Found(NoBike),
      Found(MakeBike(NoString, CoreInvalid, DimDefault, BrakeSingle, SuspTwin,
                     IdentHonda)),
      GeminiError }

\* sequences of 1..MaxQueries distinct queries
QueryLists ==
    { qs \in UNION { [1..n -> DiscoveryQueries] : n \in 1..MaxQueries } :
        \A i, j \in DOMAIN qs : i # j => qs[i] # qs[j] }

NoBatch == [results |-> <<>>, successful |-> 0, failed |-> 0]

DActive ==
    /\ dConfigured \in BOOLEAN
    /\ dQueries \in QueryLists
    /\ dGemini \in [DOMAIN dQueries -> GeminiOutcomes]
    /\ dStage = "input"
    /\ dPath = "none"
    /\ dResults = NoBatch

\* discoverMotorcycle(query), for the first query
CallDiscoverMotorcycle ==
    /\ dStage = "input"
    /\ \E uuid \in UUIDs :
           dResults' = BatchResult(<< discoverMotorcycle(dConfigured, dGemini[1],
                                                         dQueries[1], uuid) >>)
    /\ dStage' = "done"
    /\ dPath' = "single"
    /\ UNCHANGED <<dConfigured, dQueries, dGemini>>
    /\ UNCHANGED dOthers

\* discoverMotorcycles(queries)
CallDiscoverMotorcycles ==
    /\ dStage = "input"
    /\ \E uuids \in [DOMAIN dQueries -> UUIDs], order \in Permutations(DOMAIN dQueries) :
           dResults' = discoverMotorcycles(dConfigured, dGemini, dQueries, uuids, order)
    /\ dStage' = "done"
    /\ dPath' = "batch"
    /\ UNCHANGED <<dConfigured, dQueries, dGemini>>
    /\ UNCHANGED dOthers

\* queries.map((query) => discoverMotorcycleMock(query)), the batch
\* smartDiscoverMotorcycles returns when Gemini is not configured
CallDiscoverMotorcycleMock ==
    /\ dStage = "input"
    /\ ~dConfigured
    /\ \E uuids \in [DOMAIN dQueries -> UUIDs] :
           dResults' = BatchResult([ i \in DOMAIN dQueries |->
                                       discoverMotorcycleMock(dQueries[i], uuids[i]) ])
    /\ dStage' = "done"
    /\ dPath' = "mock"
    /\ UNCHANGED <<dConfigured, dQueries, dGemini>>
    /\ UNCHANGED dOthers

(***************************************************************************)
(* Rate limiter (lib/rate-limiter): a process-wide counter with a reset    *)
(* time, read and written by synchronous calls; lNow is the clock          *)
(* Date.now() reads, lAdmitted counts the requests admitted since the last *)
(* reset and lLast records the last call.                                  *)
(***************************************************************************)
MAX_REQUESTS_PER_DAY == 1000

RESET_INTERVAL_MS == 24 * 60 * 60 * 1000

checkAndReset(state, now) ==
    IF now >= state.resetAt
    THEN [count |-> 0, resetAt |-> now + RESET_INTERVAL_MS]
    ELSE state

\* mutant: the limit is compared with > instead of >=
AtLimit_OffByOne(state) == state.count > MAX_REQUESTS_PER_DAY

\* rateLimitState.count >= MAX_REQUESTS_PER_DAY
AtLimit(state) == state.count >= MAX_REQUESTS_PER_DAY

\* the state the call leaves and the value it returns
isRateLimited(state, now) ==
    [ state |-> checkAndReset(state, now),
      returned |-> AtLimit(checkAndReset(state, now)) ]

incrementRequestCount(state, now) ==
    IF AtLimit(checkAndReset(state, now))
    THEN [ state |-> checkAndReset(state, now), returned |-> FALSE ]
    ELSE [ state |-> [ checkAndReset(state, now) EXCEPT !.count = @ + 1 ],
           returned |-> TRUE ]

\* the clock advances by half a reset interval at a time, MaxClockSteps times
ClockStep == RESET_INTERVAL_MS \div 2

MaxClockSteps == 5

NoCall == [op |-> "none", returned |-> FALSE, due |-> FALSE, admittedBefore |-> 0]

\* the module is loaded at time 0
LActive ==
    /\ rateLimitState = [count |-> 0, resetAt |-> 0 + RESET_INTERVAL_MS]
    /\ lNow = 0
    /\ lAdmitted = 0
    /\ lLast = NoCall

\* the requests admitted since the last reset, when a call starts at time now
AdmittedBefore == IF lNow >= rateLimitState.resetAt THEN 0 ELSE lAdmitted

CallIsRateLimited ==
    /\ rateLimitState' = isRateLimited(rateLimitState, lNow).state
    /\ lLast' = [ op |-> "isRateLimited",
                  returned |-> isRateLimited(rateLimitState, lNow).returned,
                  due |-> lNow >= rateLimitState.resetAt,
                  admittedBefore |-> AdmittedBefore ]
    /\ lAdmitted' = AdmittedBefore
    /\ UNCHANGED lNow
    /\ UNCHANGED lOthers

CallIncrementRequestCount ==
    /\ rateLimitState' = incrementRequestCount(rateLimitState, lNow).state
    /\ lLast' = [ op |-> "incrementRequestCount",
                  returned |-> incrementRequestCount(rateLimitState, lNow).returned,
                  due |-> lNow >= rateLimitState.resetAt,
                  admittedBefore |-> AdmittedBefore ]
    /\ lAdmitted' = AdmittedBefore
                    + ( IF incrementRequestCount(rateLimitState, lNow).returned
                        THEN 1 ELSE 0 )
    /\ UNCHANGED lNow
    /\ UNCHANGED lOthers

AdvanceClock ==
    /\ lNow < MaxClockSteps * ClockStep
    /\ lNow' = lNow + ClockStep
    /\ UNCHANGED <<rateLimitState, lAdmitted, lLast>>
    /\ UNCHANGED lOthers

(***************************************************************************)
(* Application store (store/app-store): the zustand state is the record    *)
(* store; set({...}) replaces the fields it names.  A handler runs without *)
(* interruption up to its next await, so each action is one such stretch.  *)
(* tFetch holds the discovery requests awaiting their response, tPending   *)
(* the runComparison invocations awaiting their explanation; tLatest,      *)
(* tLast and tMoves record the invocation started last, the last handler   *)
(* and how often the bounded handlers ran.                                 *)
(***************************************************************************)
\* error: null, and an error message with the queries it names
NoError == [message |-> "null", queries |-> <<>>]

ErrorMessage(message, queries) == [message |-> message, queries |-> queries]

\* comparison: null
NoComparison == [motorcycles |-> <<>>, explanation |-> "null"]

initialState ==
    [ bikeQueries       |-> <<>>,
      weights           |-> DEFAULT_WEIGHTS,
      pillionMode       |-> "primary",
      motorcycles       |-> <<>>,
      scoredMotorcycles |-> <<>>,
      comparison        |-> NoComparison,
      isLoading         |-> FALSE,
      isDiscovering     |-> FALSE,
      error             |-> NoError,
      parentModeEnabled |-> FALSE ]

NoHandler ==
    [op |-> "none", query |-> "", failed |-> <<>>, found |-> 0, motorcycles |-> <<>>]

Handler(op) == [NoHandler EXCEPT !.op = op]

\* slider is the position of the slider the user moves next; overlapped says
\* that a comparison was started while another was in flight
NoMoves == [slider |-> 1, invocations |-> 0, discoveries |-> 0, overlapped |-> FALSE]

\* the store after construction, nothing in flight
TActive ==
    /\ store = initialState
    /\ tFetch = <<>>
    /\ tPending = <<>>
    /\ tLatest = NoComparison
    /\ tLast = NoHandler
    /\ tMoves = NoMoves

\* setWeights once the total of the merged weights is known
StoredWeights(updated, total) ==
    IF DLt(Num0, total)
    THEN [k \in FactorKeySet |-> DDiv(updated[k], total)]
    ELSE updated

\* the slider positions handleWeightChange is called with (min 0, max 50)
SliderValues == { 0, 50 }

\* setWeights({ [key]: value / 100 }), as handleWeightChange calls it; the
\* user moves the sliders once each, from the top of the list to its bottom
setWeights(key, value) ==
    /\ tMoves.slider <= Len(FactorKeys)
    /\ key = FactorKeys[tMoves.slider]
    /\ store' = [ store EXCEPT !.weights =
                    StoredWeights([store.weights EXCEPT ![key] = Hundredths(value)],
                                  TotalWeight([store.weights EXCEPT
                                                   ![key] = Hundredths(value)])) ]
    /\ tMoves' = [tMoves EXCEPT !.slider = @ + 1]
    /\ tLast' = Handler("setWeights")
    /\ UNCHANGED <<tFetch, tPending, tLatest>>
    /\ UNCHANGED tOthers

resetWeights ==
    /\ store' = [store EXCEPT !.weights = DEFAULT_WEIGHTS]
    /\ tLast' = Handler("resetWeights")
    /\ UNCHANGED <<tFetch, tPending, tLatest, tMoves>>
    /\ UNCHANGED tOthers

\* query.trim() and query.toLowerCase(), on the queries of the model
Trim(query) ==
    CASE query = " duke " -> "duke"
      [] query = "   "    -> ""
      [] OTHER            -> query

Lower(query) ==
    CASE query = "Duke" -> "duke"
      [] OTHER          -> query

\* what the user types: six queries that differ after trimming (two of them
\* only in case), one with spaces around it, and one that is blank
QueryInputs == { "duke", "Duke", " duke ", "cb350", "r15", "ns200", "himalayan", "   " }

Includes(list, x) == \E i \in DOMAIN list : list[i] = x

\* mutant: the list is not capped
Rejected_NoCap(current, trimmed) ==
    trimmed = "" \/ Includes(current, trimmed)

\* the early returns of addBikeQuery
Rejected(current, trimmed) ==
    \/ trimmed = ""
    \/ Includes(current, trimmed)
    \/ Len(current) >= 5

\* BikeSearch disables its input and its buttons while isDiscovering is set,
\* and shows a remove button for each query of the list
addBikeQuery(query) ==
    /\ ~store.isDiscovering
    /\ store' = IF Rejected(store.bikeQueries, Trim(query))
                THEN store
                ELSE [store EXCEPT !.bikeQueries = Append(@, Trim(query))]
    /\ tLast' = [Handler("addBikeQuery") EXCEPT !.query = query]
    /\ UNCHANGED <<tFetch, tPending, tLatest, tMoves>>
    /\ UNCHANGED tOthers

\* the motorcycles filter of removeBikeQuery
KeptMotorcycles(motorcycles, query) ==
    SelectSeq(motorcycles, LAMBDA m : Lower(m.searchQuery) # Lower(query))

KeptQueries(bikeQueries, query) == SelectSeq(bikeQueries, LAMBDA q : q # query)

removeBikeQuery(query) ==
    /\ ~store.isDiscovering
    /\ Includes(store.bikeQueries, query)
    /\ store' = [ store EXCEPT
                    !.bikeQueries = KeptQueries(store.bikeQueries, query),
                    !.motorcycles = KeptMotorcycles(store.motorcycles, query) ]
    /\ tLast' = [ Handler("removeBikeQuery") EXCEPT
                    !.query = query, !.motorcycles = store.motorcycles ]
    /\ UNCHANGED <<tFetch, tPending, tLatest, tMoves>>
    /\ UNCHANGED tOthers

\* clearBikeQueries and reset are called while no discovery is in flight
clearBikeQueries ==
    /\ tFetch = <<>>
    /\ store' = [ store EXCEPT
                    !.bikeQueries = <<>>, !.motorcycles = <<>>,
                    !.scoredMotorcycles = <<>>, !.comparison = NoComparison ]
    /\ tLast' = Handler("clearBikeQueries")
    /\ UNCHANGED <<tFetch, tPending, tLatest, tMoves>>
    /\ UNCHANGED tOthers

reset ==
    /\ tFetch = <<>>
    /\ store' = initialState
    /\ tLast' = Handler("reset")
    /\ UNCHANGED <<tFetch, tPending, tLatest, tMoves>>
    /\ UNCHANGED tOthers

setPillionMode(mode) ==
    /\ store' = [store EXCEPT !.pillionMode = mode]
    /\ tLast' = Handler("setPillionMode")
    /\ UNCHANGED <<tFetch, tPending, tLatest, tMoves>>
    /\ UNCHANGED tOthers

\* the motorcycle a discovery returns for a query
DiscoveredFor(query) ==
    CASE query = "duke"  -> convertToMotorcycle(RankSport, "duke", "uuid-1")
      [] query = "Duke"  -> convertToMotorcycle(RankSport, "Duke", "uuid-2")
      [] OTHER           -> convertToMotorcycle(RankCruiser, query, "uuid-3")

\* the motorcycles addMotorcycle is called with, each while its query is listed
MotorcycleInputs == { DiscoveredFor("duke"), DiscoveredFor("Duke") }

addMotorcycle(motorcycle) ==
    /\ Includes(store.bikeQueries, motorcycle.searchQuery)
    /\ store' = IF \E i \in DOMAIN store.motorcycles :
                       store.motorcycles[i].id = motorcycle.id
                THEN store
                ELSE [store EXCEPT !.motorcycles = Append(@, motorcycle)]
    /\ tLast' = Handler("addMotorcycle")
    /\ UNCHANGED <<tFetch, tPending, tLatest, tMoves>>
    /\ UNCHANGED tOthers

\* the most discoveries and the most comparisons started in one run
MaxDiscoveries == 1

MaxInvocations == 2

\* discoverBikes up to its await of fetch: the request goes out with the
\* queries as its body
discoverBikes ==
    /\ ~store.isDiscovering
    /\ tMoves.discoveries < MaxDiscoveries
    /\ IF Len(store.bikeQueries) = 0
       THEN /\ store' = [ store EXCEPT !.error =
                            ErrorMessage("Please add at least one bike to compare", <<>>) ]
            /\ UNCHANGED tFetch
       ELSE /\ store' = [store EXCEPT !.isDiscovering = TRUE, !.error = NoError]
            /\ tFetch' = Append(tFetch, [queries |-> store.bikeQueries])
    /\ tMoves' = [tMoves EXCEPT !.discoveries = @ + 1]
    /\ tLast' = Handler("discoverBikes")
    /\ UNCHANGED <<tPending, tLatest>>
    /\ UNCHANGED tOthers

\* the input validation of the route: 1 to 5 non-empty strings
RouteAccepts(queries) ==
    /\ Len(queries) # 0
    /\ Len(queries) <= 5
    /\ \A i \in DOMAIN queries : Trim(queries[i]) # ""

\* a sequence without its element at position i
Without(list, i) == SubSeq(list, 1, i - 1) \o SubSeq(list, i + 1, Len(list))

\* discoverBikes after its await, for a response that is not ok: 400 when the
\* route rejects the body, else 429 or 500
DiscoveryRejected ==
    /\ \E i \in DOMAIN tFetch :
           /\ tFetch' = Without(tFetch, i)
           /\ \E status \in IF RouteAccepts(tFetch[i].queries) THEN {429, 500} ELSE {400} :
                  store' = [ store EXCEPT
                               !.isDiscovering = FALSE,
                               !.error = ErrorMessage("data.error", <<>>) ]
    /\ tLast' = Handler("discoveryRejected")
    /\ UNCHANGED <<tPending, tLatest, tMoves>>
    /\ UNCHANGED tOthers

\* runComparison up to its await of generateComparisonResult, on the state st
\* with ranked = scoreAndRankMotorcycles(motorcycles, weights, pillionMode):
\* the state it leaves and the invocations it adds to those in flight
ComparisonStarted(st, ranked) ==
    IF ranked.threw
    THEN [ store |-> [st EXCEPT !.isLoading = FALSE,
                                !.error = ErrorMessage("TypeError", <<>>)],
           started |-> <<>> ]
    ELSE [ store |-> [st EXCEPT !.isLoading = TRUE, !.error = NoError],
           started |-> << [motorcycles |-> ranked.bikes,
                           explanation |-> "explanation"] >> ]

RunComparison(st) ==
    IF Len(st.motorcycles) = 0
    THEN [ store |-> [st EXCEPT !.error = ErrorMessage("No motorcycles to compare", <<>>)],
           started |-> <<>> ]
    ELSE ComparisonStarted(st, scoreAndRankMotorcycles(st.motorcycles, st.weights,
                                                       st.pillionMode))

\* what a handler that may start a comparison leaves behind
Started(run, handler) ==
    /\ store' = run.store
    /\ tPending' = tPending \o run.started
    /\ tLatest' = IF run.started = <<>> THEN tLatest ELSE run.started[1]
    /\ tMoves' = [ tMoves EXCEPT
                     !.invocations = @ + 1,
                     !.overlapped = @ \/ (tPending # <<>> /\ run.started # <<>>) ]
    /\ tLast' = handler

runComparison ==
    /\ tMoves.invocations < MaxInvocations
    /\ Started(RunComparison(store), Handler("runComparison"))
    /\ UNCHANGED tFetch
    /\ UNCHANGED tOthers

\* runComparison after its await: the explanation of invocation i is there
ComparisonResolved ==
    /\ \E i \in DOMAIN tPending :
           /\ store' = [ store EXCEPT
                           !.scoredMotorcycles = tPending[i].motorcycles,
                           !.comparison = tPending[i],
                           !.isLoading = FALSE ]
           /\ tPending' = Without(tPending, i)
    /\ tLast' = [tLast EXCEPT !.op = "comparisonResolved"]
    /\ UNCHANGED <<tFetch, tLatest, tMoves>>
    /\ UNCHANGED tOthers

\* the queries at the positions of found / not of found, in the order given
QueriesAt(queries, order, found, wanted) ==
    SelectSeq([i \in DOMAIN queries |-> queries[order[i]]],
              LAMBDA q : (\E k \in found : queries[k] = q) = wanted)

Discovered(queries) == [i \in DOMAIN queries |-> DiscoveredFor(queries[i])]

\* discoverBikes after its await, on the state st, for a response that is ok
\* with the motorcycles found and the queries that failed
DiscoveryContinued(st, motorcycles, failed) ==
    IF Len(failed) > 0 /\ Len(motorcycles) = 0
    THEN [ store |-> [st EXCEPT !.isDiscovering = FALSE,
                                !.error = ErrorMessage("failures", failed)],
           started |-> <<>> ]
    ELSE IF Len(motorcycles) > 0
    THEN RunComparison([ st EXCEPT
                           !.motorcycles = motorcycles,
                           !.isDiscovering = FALSE,
                           !.error = IF Len(failed) > 0
                                     THEN ErrorMessage("Some bikes couldn't be found",
                                                       failed)
                                     ELSE NoError ])
    ELSE [ store |-> [st EXCEPT !.motorcycles = motorcycles, !.isDiscovering = FALSE,
                                !.error = NoError],
           started |-> <<>> ]

\* the results come in the order in which the discoveries settled
DiscoveryResolved ==
    /\ tMoves.invocations < MaxInvocations
    /\ \E i \in DOMAIN tFetch :
           /\ RouteAccepts(tFetch[i].queries)
           /\ tFetch' = Without(tFetch, i)
           /\ \E found \in SUBSET DOMAIN tFetch[i].queries,
                 order \in Permutations(DOMAIN tFetch[i].queries) :
                  Started(DiscoveryContinued(
                              store,
                              Discovered(QueriesAt(tFetch[i].queries, order, found, TRUE)),
                              QueriesAt(tFetch[i].queries, order, found, FALSE)),
                          [ Handler("discoveryResolved") EXCEPT
                              !.failed = QueriesAt(tFetch[i].queries, order, found, FALSE),
                              !.found = Cardinality(found) ])
    /\ UNCHANGED tOthers

\* the store once the user has queued the bikes to compare
TQueued ==
    /\ store \in { [initialState EXCEPT !.bikeQueries = queries] :
                     queries \in { << "duke", "cb350" >>, << "cb350" >> } }
    /\ tFetch = <<>>
    /\ tPending = <<>>
    /\ tLatest = NoComparison
    /\ tLast = NoHandler
    /\ tMoves = NoMoves

(***************************************************************************)
(* Specifications: one per harness; the other harnesses stay idle          *)
(***************************************************************************)
WIdle ==
    /\ wIn = ZeroWeights
    /\ wStage = "idle"
    /\ wOnce = ZeroWeights
    /\ wTwice = ZeroWeights
    /\ wValid = NoValidation
    /\ wAccepted = FALSE

SIdle ==
    /\ sWeights = ZeroWeights
    /\ sScores = NoScores
    /\ sBike = NoBike
    /\ sStage = "idle"
    /\ sFinal = NoScore
    /\ sScored = NoScored

NIdle ==
    /\ nBike = NoBike
    /\ nMode = "primary"
    /\ nStage = "idle"
    /\ nValidation = NoValidation
    /\ nResult = NoNormalization
    /\ nConfidences = NoConfidences

RIdle ==
    /\ rBatch = <<>>
    /\ rWeights = ZeroWeights
    /\ rMode = "primary"
    /\ rStage = "idle"
    /\ rResult = NoRanking

CIdle ==
    /\ cBike1 = NoScored
    /\ cBike2 = NoScored
    /\ cStage = "idle"
    /\ cForward = <<>>
    /\ cBackward = <<>>

FIdle ==
    /\ fBike = NoBike
    /\ fStage = "idle"
    /\ fFilled = NoBike
    /\ fValidation = NoValidation
    /\ fConfidences = NoConfidences
    /\ fAgain = NoBike

DIdle ==
    /\ dConfigured = FALSE
    /\ dQueries = <<>>
    /\ dGemini = <<>>
    /\ dStage = "idle"
    /\ dPath = "none"
    /\ dResults = NoBatch

\* the limiter before any call, at the time the module is loaded
LIdle == LActive

\* the store before any handler ran
TIdle == TActive

InitWeights ==
    /\ WActive
    /\ SIdle
    /\ NIdle
    /\ RIdle
    /\ CIdle
    /\ FIdle
    /\ DIdle
    /\ LIdle
    /\ TIdle

NextWeights ==
    \/ CallNormalizeWeights
    \/ CallNormalizeWeightsAgain
    \/ CallValidateWeights
    \/ CallValidateWeightsBoolean

SpecWeights == InitWeights /\ [][NextWeights]_vars

InitScoring ==
    /\ SActive
    /\ WIdle
    /\ NIdle
    /\ RIdle
    /\ CIdle
    /\ FIdle
    /\ DIdle
    /\ LIdle
    /\ TIdle

NextScoring ==
    \/ CallCalculateFinalScore
    \/ CallScoreMotorcycle

SpecScoring == InitScoring /\ [][NextScoring]_vars

InitNormalize ==
    /\ NActive
    /\ WIdle
    /\ SIdle
    /\ RIdle
    /\ CIdle
    /\ FIdle
    /\ DIdle
    /\ LIdle
    /\ TIdle

NextNormalize ==
    \/ CallValidateMotorcycle
    \/ CallNormalizeMotorcycle
    \/ CallGetFactorConfidences

SpecNormalize == InitNormalize /\ [][NextNormalize]_vars

InitRank ==
    /\ RActive
    /\ WIdle
    /\ SIdle
    /\ NIdle
    /\ CIdle
    /\ FIdle
    /\ DIdle
    /\ LIdle
    /\ TIdle

NextRank == CallScoreAndRankMotorcycles

SpecRank == InitRank /\ [][NextRank]_vars

InitCompare ==
    /\ CActive
    /\ WIdle
    /\ SIdle
    /\ NIdle
    /\ RIdle
    /\ FIdle
    /\ DIdle
    /\ LIdle
    /\ TIdle

NextCompare ==
    \/ CallCompareScores
    \/ CallCompareScoresSwapped

SpecCompare == InitCompare /\ [][NextCompare]_vars

InitFill ==
    /\ FActive
    /\ WIdle
    /\ SIdle
    /\ NIdle
    /\ RIdle
    /\ CIdle
    /\ DIdle
    /\ LIdle
    /\ TIdle

NextFill ==
    \/ CallFillMissingData
    \/ CallRevalidate
    \/ CallAssessFilled
    \/ CallFillMissingDataAgain

SpecFill == InitFill /\ [][NextFill]_vars

InitDiscover ==
    /\ DActive
    /\ WIdle
    /\ SIdle
    /\ NIdle
    /\ RIdle
    /\ CIdle
    /\ FIdle
    /\ LIdle
    /\ TIdle

NextDiscover ==
    \/ CallDiscoverMotorcycle
    \/ CallDiscoverMotorcycles
    \/ CallDiscoverMotorcycleMock

SpecDiscover == InitDiscover /\ [][NextDiscover]_vars

InitLimiter ==
    /\ LActive
    /\ WIdle
    /\ SIdle
    /\ NIdle
    /\ RIdle
    /\ CIdle
    /\ FIdle
    /\ DIdle
    /\ TIdle

NextLimiter ==
    \/ CallIsRateLimited
    \/ CallIncrementRequestCount
    \/ AdvanceClock

SpecLimiter == InitLimiter /\ [][NextLimiter]_vars

InitSliders ==
    /\ TActive
    /\ WIdle
    /\ SIdle
    /\ NIdle
    /\ RIdle
    /\ CIdle
    /\ FIdle
    /\ DIdle
    /\ LIdle

NextSliders ==
    \/ \E key \in FactorKeySet, value \in SliderValues : setWeights(key, value)
    \/ resetWeights

SpecSliders == InitSliders /\ [][NextSliders]_vars

InitQueries ==
    /\ TActive
    /\ WIdle
    /\ SIdle
    /\ NIdle
    /\ RIdle
    /\ CIdle
    /\ FIdle
    /\ DIdle
    /\ LIdle

NextQueries ==
    \/ \E query \in QueryInputs : addBikeQuery(query)
    \/ \E query \in QueryInputs : removeBikeQuery(query)
    \/ clearBikeQueries
    \/ reset
    \/ \E motorcycle \in MotorcycleInputs : addMotorcycle(motorcycle)
    \/ discoverBikes
    \/ DiscoveryRejected

SpecQueries == InitQueries /\ [][NextQueries]_vars

InitComparison ==
    /\ TQueued
    /\ WIdle
    /\ SIdle
    /\ NIdle
    /\ RIdle
    /\ CIdle
    /\ FIdle
    /\ DIdle
    /\ LIdle

NextComparison ==
    \/ discoverBikes
    \/ DiscoveryRejected
    \/ DiscoveryResolved
    \/ \E mode \in PillionModes : setPillionMode(mode)
    \/ runComparison
    \/ ComparisonResolved

SpecComparison == InitComparison /\ [][NextComparison]_vars

(***************************************************************************)
(* Exact arithmetic on Numbers, for stating properties of sums             *)
(***************************************************************************)
\* the sum of the weights at positions 1..i, without rounding
RECURSIVE ExactSumTo(_, _)
ExactSumTo(weights, i) ==
    IF i = 0 THEN Zero
    ELSE ExactAdd(ExactSumTo(weights, i - 1), weights[FactorKeys[i]])

ExactSum(weights) == ExactSumTo(weights, Len(FactorKeys))

\* |x - y| * k > 1 for a positive integer k, without rounding
FartherThanOneIn(x, y, k) ==
    IsNegative(ExactAdd(Num1,
                        [ sign |-> -1,
                          man  |-> BigMul(ExactAdd(x, DNeg(y)).man, BigNat(k)),
                          exp  |-> ExactAdd(x, DNeg(y)).exp ]))

\* |x - y| <= 1e-9
WithinTolerance(x, y) == ~FartherThanOneIn(x, y, 1000000000)

NonNegative(weights) == \A k \in FactorKeySet : ~IsNegative(weights[k])

(***************************************************************************)
(* Properties                                                              *)
(***************************************************************************)
\* C1: for every record validateMotorcycle reports no errors for (warnings
\* allowed) and every pillion mode, normalizeMotorcycle returns all ten factor
\* scores, each a multiple of 0.5 in [1,10].  Stated of SpecNormalize; it fails
\* on a record without a front suspension descriptor, for which the validator
\* only warns and the normalizer throws a TypeError.
C1_ValidRecordsGetScores ==
    (nStage = "normalized" /\ nValidation.isValid)
        => /\ ~nResult.threw
           /\ \A k \in FactorKeySet :
                  /\ nResult.scores[k] % 2 = 0
                  /\ nResult.scores[k] >= Score(1, 0)
                  /\ nResult.scores[k] <= Score(10, 0)

\* C2: for score sets within [1,10] and non-negative weights, calculateFinalScore
\* and the finalScore of scoreMotorcycle are integers in [0,100].  Stated of
\* SpecScoring.
C2_FinalScoreInRange ==
    /\ (sStage = "scored" /\ NonNegative(sWeights)) => sFinal \in 0..100
    /\ (sStage = "bikeScored" /\ NonNegative(sWeights) /\ ~sScored.threw)
           => sScored.finalScore \in 0..100

\* calculateFinalScore has scored top marks under weights that sum to 2.5
C2_Witness ==
    /\ sStage = "scored"
    /\ NonNegative(sWeights)
    /\ DLt(Num1, TotalWeight(sWeights))
    /\ sFinal = 100

\* C3: scoreAndRankMotorcycles returns the batch in non-increasing finalScore
\* order with competition ranking: every rank is 1 plus the number of entries
\* with a strictly higher finalScore, and a strictly higher finalScore never has
\* a numerically higher rank.  Stated of SpecRank.
C3_CompetitionRanking ==
    (rStage = "ranked" /\ ~rResult.threw)
        => /\ Len(rResult.bikes) = Len(rBatch)
           /\ \A i \in 1..(Len(rResult.bikes) - 1) :
                  rResult.bikes[i].finalScore >= rResult.bikes[i + 1].finalScore
           /\ \A i \in DOMAIN rResult.bikes :
                  rResult.bikes[i].rank
                      = 1 + Cardinality({ j \in DOMAIN rResult.bikes :
                                            rResult.bikes[j].finalScore
                                                > rResult.bikes[i].finalScore })
           /\ \A i, j \in DOMAIN rResult.bikes :
                  rResult.bikes[i].finalScore > rResult.bikes[j].finalScore
                      => rResult.bikes[i].rank < rResult.bikes[j].rank

\* two tied leaders and a third entry: ranks 1, 1, 3
C3_Witness ==
    /\ rStage = "ranked"
    /\ Len(rResult.bikes) = 3
    /\ rResult.bikes[1].finalScore = rResult.bikes[2].finalScore
    /\ rResult.bikes[2].finalScore > rResult.bikes[3].finalScore
    /\ rResult.bikes[1].rank = 1
    /\ rResult.bikes[2].rank = 1
    /\ rResult.bikes[3].rank = 3

\* the 1-based position of a record in the input batch
InputPosition(motorcycle) == CHOOSE p \in DOMAIN rBatch : rBatch[p] = motorcycle

\* C4: in the output of scoreAndRankMotorcycles, two vehicles with equal
\* finalScore keep the relative order they had in the input array.  Stated of
\* SpecRank.
C4_TiesKeepInputOrder ==
    (rStage = "ranked" /\ ~rResult.threw)
        => \A i, j \in DOMAIN rResult.bikes :
               (i < j /\ rResult.bikes[i].finalScore = rResult.bikes[j].finalScore)
                   => InputPosition(rResult.bikes[i].motorcycle)
                          < InputPosition(rResult.bikes[j].motorcycle)

\* a batch whose first and last records tie below the middle one, and a batch
\* that hands in the twin ahead of the record it ties with
C4_Witness ==
    /\ rStage = "ranked"
    /\ rBatch = << RankTwin, RankCommuter, RankSport >>
    /\ ~rResult.threw
    /\ \E i \in 1..2 :
           /\ rResult.bikes[i].motorcycle = RankTwin
           /\ rResult.bikes[i + 1].motorcycle = RankSport
           /\ rResult.bikes[i].finalScore = rResult.bikes[i + 1].finalScore

\* C5: for every weight vector whose entries sum to 0, normalizeWeights returns
\* DEFAULT_WEIGHTS, and DEFAULT_WEIGHTS sums to 1.  Stated of SpecWeights; it
\* fails on entries that cancel exactly (0.1, 0.2, -0.1, -0.2), whose sum in
\* double precision, taken in key order, is not 0.
C5_ZeroSumGivesDefaults ==
    /\ (wStage = "normalized" /\ IsZero(ExactSum(wIn))) => wOnce = DEFAULT_WEIGHTS
    /\ TotalWeight(DEFAULT_WEIGHTS) = Num1

\* C6 as stated: for non-negative weights, normalizing a normalized vector
\* returns it unchanged, entry by entry.  Stated of SpecWeights; it fails where
\* the quotients of the first pass do not add up to exactly 1 in double
\* precision, so the second pass divides by a total other than 1.
C6_ExactlyIdempotent ==
    (wStage = "renormalized" /\ NonNegative(wIn))
        => \A k \in FactorKeySet : wTwice[k] = wOnce[k]

\* C6, amended: for non-negative weights, normalizing a normalized vector
\* changes no entry by more than 1e-9.
C6_IdempotentWithinTolerance ==
    (wStage = "renormalized" /\ NonNegative(wIn))
        => \A k \in FactorKeySet : WithinTolerance(wTwice[k], wOnce[k])

\* a second pass that moved an entry, after a first pass that rescaled
C6_Witness ==
    /\ wStage = "renormalized"
    /\ NonNegative(wIn)
    /\ wOnce # wIn
    /\ wTwice # wOnce

\* C7 as stated: for non-negative weights the normalized vector has only
\* non-negative entries and sums to 1, whether the sum is taken as the code
\* takes it (in key order, in double precision) or without rounding.  Stated
\* of SpecWeights.
C7_SumsToExactlyOne ==
    (wStage = "normalized" /\ NonNegative(wIn))
        => /\ NonNegative(wOnce)
           /\ \/ TotalWeight(wOnce) = Num1
              \/ ExactSum(wOnce) = Num1

\* C7, amended: for non-negative weights the normalized vector has only
\* non-negative entries and its sum, taken either way, is within 1e-9 of 1.
C7_SumsToOneWithinTolerance ==
    (wStage = "normalized" /\ NonNegative(wIn))
        => /\ NonNegative(wOnce)
           /\ WithinTolerance(TotalWeight(wOnce), Num1)
           /\ WithinTolerance(ExactSum(wOnce), Num1)

\* a dominant weight in a vector that sums to more than 1 has been scaled down
C7_Witness ==
    /\ wStage = "normalized"
    /\ NonNegative(wIn)
    /\ DLt(Num1, TotalWeight(wIn))
    /\ DLt(Num0_5, wIn["dailyTrafficEase"])
    /\ DLt(wOnce["dailyTrafficEase"], wIn["dailyTrafficEase"])

\* C8: the detailed validateWeights reports an error exactly when some weight
\* is negative or the sum differs from 1 by more than 0.05; with no negative
\* weight and a sum off by more than 0.01 but at most 0.05 it is valid with
\* warnings.  Stated of SpecWeights, with the sum of the entries taken without
\* rounding; it fails on 0.5 + 0.45, whose distance from 1 the code computes as
\* 0.050000000000000044.
C8_ErrorExactlyBeyondFiveHundredths ==
    wStage = "validated"
        => /\ ~wValid.isValid
               <=> \/ ~NonNegative(wIn)
                   \/ FartherThanOneIn(ExactSum(wIn), Num1, 20)
           /\ ( /\ NonNegative(wIn)
                /\ FartherThanOneIn(ExactSum(wIn), Num1, 100)
                /\ ~FartherThanOneIn(ExactSum(wIn), Num1, 20) )
                  => /\ wValid.isValid
                     /\ Len(wValid.warnings) > 0
                     /\ Len(wValid.errors) = 0

\* the entry of a comparison for a factor
EntryFor(comparison, factor) ==
    CHOOSE e \in { comparison[i] : i \in DOMAIN comparison } : e.factor = factor

\* C9: compareScores is anti-symmetric: for every factor the winner of
\* compareScores(a,b) is bike1 iff that of compareScores(b,a) is bike2, tie iff
\* tie, and the reported difference is the same.  Stated of SpecCompare.
C9_AntiSymmetric ==
    cStage = "comparedBoth"
        => \A k \in FactorKeySet :
               /\ EntryFor(cForward, k).winner = "bike1"
                      <=> EntryFor(cBackward, k).winner = "bike2"
               /\ EntryFor(cForward, k).winner = "bike2"
                      <=> EntryFor(cBackward, k).winner = "bike1"
               /\ EntryFor(cForward, k).winner = "tie"
                      <=> EntryFor(cBackward, k).winner = "tie"
               /\ EntryFor(cForward, k).difference = EntryFor(cBackward, k).difference

\* both calls made on vehicles where one factor goes each way and one is tied
C9_Witness ==
    /\ cStage = "comparedBoth"
    /\ \E i \in DOMAIN cForward : cForward[i].winner = "bike1"
    /\ \E i \in DOMAIN cForward : cForward[i].winner = "bike2"
    /\ \E i \in DOMAIN cForward : cForward[i].winner = "tie"

\* C10: compareScores returns exactly one entry per factor, ordered by
\* non-increasing absolute difference, with winner bike1 when score1 - score2
\* exceeds 0.25, bike2 when it is below -0.25, and tie otherwise.  Stated of
\* SpecCompare.
C10_OneEntryPerFactorByDifference ==
    cStage = "compared"
        => /\ Len(cForward) = Len(FactorKeys)
           /\ \A k \in FactorKeySet :
                  Cardinality({ i \in DOMAIN cForward : cForward[i].factor = k }) = 1
           /\ \A i \in 1..(Len(cForward) - 1) :
                  cForward[i].difference >= cForward[i + 1].difference
           /\ \A i \in DOMAIN cForward :
                  /\ cForward[i].difference
                         = Abs(cBike1.factorScores[cForward[i].factor]
                                   - cBike2.factorScores[cForward[i].factor])
                  /\ cForward[i].winner
                         = IF cBike1.factorScores[cForward[i].factor]
                                  - cBike2.factorScores[cForward[i].factor] > Score(0, 1)
                           THEN "bike1"
                           ELSE IF cBike2.factorScores[cForward[i].factor]
                                       - cBike1.factorScores[cForward[i].factor] > Score(0, 1)
                           THEN "bike2"
                           ELSE "tie"

\* a comparison with a tie at a difference of exactly 0.25 and larger
\* differences sorted ahead of it
C10_Witness ==
    /\ cStage = "compared"
    /\ \E i \in DOMAIN cForward :
           /\ cForward[i].difference = Score(0, 1)
           /\ cForward[i].winner = "tie"
    /\ cForward[1].difference > Score(0, 1)
    /\ cForward[1].winner # "tie"

\* C11: validateMotorcycle returns isValid = false exactly when the brand or
\* the model is missing, the engine displacement, the power or the kerb weight
\* is missing or not positive, or the front or the rear brake type is missing;
\* warning conditions never make it false.  Stated of SpecNormalize.
C11_InvalidExactlyOnErrors ==
    nStage \in {"validated", "normalized", "assessed"}
        => ( ~nValidation.isValid
               <=> \/ nBike.brand \in {NoString, ""}
                   \/ nBike.model \in {NoString, ""}
                   \/ nBike.engineCC = Undef \/ nBike.engineCC <= 0
                   \/ nBike.power = Undef \/ nBike.power <= 0
                   \/ nBike.kerbWeight = Undef \/ nBike.kerbWeight <= 0
                   \/ nBike.frontBrake \in {NoString, ""}
                   \/ nBike.rearBrake \in {NoString, ""} )

\* a record reported valid although it carries at least five warnings
C11_Witness ==
    /\ nStage = "validated"
    /\ nValidation.isValid
    /\ Len(nValidation.warnings) >= 5

\* a record with every field present and plausible except that torque,
\* wheelbase and handlebar type are missing
MissesTorqueWheelbaseHandlebar(bike) ==
    /\ bike.torque = Undef
    /\ bike.wheelbase = Undef
    /\ bike.handlebarType = NoString
    /\ bike.brand \notin {NoString, ""}
    /\ bike.model \notin {NoString, ""}
    /\ bike.engineCC \in 1..2000
    /\ bike.power \in 1..200
    /\ bike.kerbWeight \in 80..400
    /\ bike.seatHeight \in 600..1000
    /\ bike.groundClearance > 0
    /\ bike.fuelCapacity > 0
    /\ bike.frontBrake \in {"disc", "drum"}
    /\ bike.rearBrake \in {"disc", "drum"}
    /\ bike.absType \in {"none", "single-channel", "dual-channel"}
    /\ bike.frontTyreWidth > 0
    /\ bike.rearTyreWidth > 0
    /\ bike.frontSuspension \notin {NoString, ""}
    /\ bike.rearSuspension \in {"monoshock", "twin", "other"}
    /\ bike.rearSuspensionTravel > 0

\* C12: a record complete and plausible except that torque, wheelbase and
\* handlebar type are missing validates with exactly three warnings and no
\* error.  Stated of SpecNormalize; it fails because validateMotorcycle never
\* looks at the handlebar type: the record gets two warnings.
C12_ThreeWarningsNoError ==
    (nStage = "validated" /\ MissesTorqueWheelbaseHandlebar(nBike))
        => /\ Len(nValidation.warnings) = 3
           /\ Len(nValidation.errors) = 0

\* C13: for every partial record (fields absent, zero, or present with any
\* value) validateMotorcycle(fillMissingData(record)) has no errors.  Stated of
\* SpecFill; it fails on a negative engine displacement, power or kerb weight,
\* which value || fallback keeps.
C13_FilledRecordRevalidates ==
    fStage \in {"revalidated", "assessed"} => Len(fValidation.errors) = 0

\* confidence labels in order
ConfidenceRank(label) ==
    CASE label = "low" -> 0 [] label = "medium" -> 1 [] label = "high" -> 2

\* fillMissingData replaced the field of the input by its fallback value
FilledNum(field) == ~TruthyNum(fBike[field])

FilledStr(field) == ~TruthyStr(fBike[field])

\* fillMissingData filled a field that the factor's score function reads
FilledFieldRead(factor) ==
    CASE factor = "dailyTrafficEase" ->
             \/ FilledNum("kerbWeight") \/ FilledNum("seatHeight")
             \/ FilledNum("power") \/ FilledNum("engineCC")
      [] factor = "brakingSafetyConfidence" ->
             \/ FilledStr("frontBrake") \/ FilledStr("rearBrake") \/ FilledStr("absType")
             \/ FilledNum("frontTyreWidth") \/ FilledNum("rearTyreWidth")
      [] factor = "highwayStability" ->
             \/ FilledNum("wheelbase") \/ FilledNum("kerbWeight")
             \/ FilledNum("power") \/ FilledNum("rearTyreWidth")
      [] OTHER -> FALSE

\* C14: when fillMissingData substituted a fallback for a field a factor reads
\* (wheelbase for highway stability, kerb weight for daily traffic ease), the
\* confidence of that factor for the filled record is strictly lower than with
\* the same values genuinely supplied, or is low.  Stated of SpecFill; it fails
\* because the filled record does not say which of its fields were filled.
C14_FilledFactorsLoseConfidence ==
    fStage = "assessed"
        => \A k \in FactorKeySet :
               FilledFieldRead(k)
                   => \/ fConfidences[k] = "low"
                      \/ ConfidenceRank(fConfidences[k])
                             < ConfidenceRank(getFactorConfidences(
                                   [fFilled EXCEPT !.confidence = fBike.confidence])[k])

\* C15: the confidence of ownershipPracticality and of longTermSuitability is
\* the lower of the record's base confidence and medium, so never above the
\* base label.  Stated of SpecNormalize; it fails for a base confidence of low,
\* where both factors are reported medium.
C15_PredictiveFactorsCapped ==
    nStage = "assessed"
        => \A k \in {"ownershipPracticality", "longTermSuitability"} :
               /\ nConfidences[k]
                      = (IF nBike.confidence = "high" THEN "medium" ELSE nBike.confidence)
               /\ ConfidenceRank(nConfidences[k]) <= ConfidenceRank(nBike.confidence)

\* the record with a rear suspension travel and a handlebar type supplied
WithOptionalInputs(bike) ==
    [bike EXCEPT !.rearSuspensionTravel = 120, !.handlebarType = "standard"]

\* one confidence step below a label, low staying low
StepBelow(label) ==
    CASE label = "high" -> "medium" [] label = "medium" -> "low" [] label = "low" -> "low"

\* C16: with rearSuspensionTravel missing, suspensionCompliance and
\* primaryPillionComfort are one step below the base confidence; with
\* handlebarType missing the same holds for riderComfort and funEngagement,
\* which are then at most medium; every factor that does not depend on a
\* missing input has the confidence it has with the inputs supplied.  Stated
\* of SpecNormalize.
C16_MissingInputsDowngradeOneStep ==
    nStage = "assessed"
        => /\ \A k \in {"suspensionCompliance", "primaryPillionComfort"} :
                  nConfidences[k]
                      = IF nBike.rearSuspensionTravel \in {Undef, 0}
                        THEN StepBelow(nBike.confidence)
                        ELSE getFactorConfidences(WithOptionalInputs(nBike))[k]
           /\ \A k \in {"riderComfort", "funEngagement"} :
                  nConfidences[k]
                      = IF nBike.handlebarType \in {NoString, ""}
                        THEN StepBelow(nBike.confidence)
                        ELSE getFactorConfidences(WithOptionalInputs(nBike))[k]
           /\ \A k \in {"riderComfort", "funEngagement"} :
                  nBike.handlebarType \in {NoString, ""} => nConfidences[k] # "high"
           /\ \A k \in FactorKeySet \ {"suspensionCompliance", "primaryPillionComfort",
                                       "riderComfort", "funEngagement"} :
                  nConfidences[k] = getFactorConfidences(WithOptionalInputs(nBike))[k]

\* a record of high confidence without a handlebar type but with a rear
\* suspension travel: rider comfort is medium, suspension compliance high
C16_Witness ==
    /\ nStage = "assessed"
    /\ nBike.confidence = "high"
    /\ nBike.handlebarType = NoString
    /\ nBike.rearSuspensionTravel > 0
    /\ nConfidences["riderComfort"] = "medium"
    /\ nConfidences["funEngagement"] = "medium"
    /\ nConfidences["suspensionCompliance"] = "high"

\* the external heat rating is present and within [1,10]
RatingUsable(bike) ==
    /\ bike.heatManagementRating # Undef
    /\ bike.heatManagementRating >= Score(1, 0)
    /\ bike.heatManagementRating <= Score(10, 0)

\* the nearest half point to a value in quarter points, ties upwards
NearestHalf(q) == CHOOSE h \in 0..(q + 2) : h % 2 = 0 /\ h - q \in {0, 1}

\* C17: when heatManagementRating is present and in [1,10] the heat score is
\* the rating rounded to the nearest 0.5 and the confidence is the base label;
\* in every other case (absent, 0, outside [1,10]) the score lies within the
\* reach of the baseline-6 rule and the confidence is low.  Stated of
\* SpecNormalize; it fails on a rating of 11 or 0.5, which the score ignores
\* and the confidence counts as present.
C17_HeatScoreAndConfidenceAgree ==
    nStage = "assessed"
        => IF RatingUsable(nBike)
           THEN /\ nResult.scores["heatManagement"]
                       = NearestHalf(nBike.heatManagementRating)
                /\ nConfidences["heatManagement"] = nBike.confidence
           ELSE /\ nResult.scores["heatManagement"] \in Score(4, 2)..Score(7, 0)
                /\ nConfidences["heatManagement"] = "low"

\* the motorcycle of the first scenario; its other fields are free
IsScenarioOne(bike) ==
    /\ bike.kerbWeight = 168
    /\ bike.power = 46
    /\ bike.engineCC = 399
    /\ bike.absType = "dual-channel"
    /\ bike.frontBrake = "disc"
    /\ bike.rearBrake = "disc"
    /\ bike.rearSuspension = "monoshock"
    /\ bike.rearSuspensionTravel = 150
    /\ bike.seatHeight = 820

\* C18: for a motorcycle of 168 kg, 46 bhp, 399 cc, dual-channel ABS, disc
\* brakes front and rear, a monoshock with 150 mm travel and a seat height of
\* 820 mm, scoreDailyTrafficEase is at least 6.5 and
\* scoreBrakingSafetyConfidence at least 8.5.  Stated of SpecNormalize; it
\* fails on the daily traffic ease, which the rule set puts at 4.5.
C18_ScenarioOneScores ==
    (nStage = "normalized" /\ ~nResult.threw /\ IsScenarioOne(nBike))
        => /\ nResult.scores["dailyTrafficEase"] >= Score(6, 2)
           /\ nResult.scores["brakingSafetyConfidence"] >= Score(8, 2)

\* a number field that is absent or lies in lo..hi
AbsentOrIn(x, lo, hi) == x = Undef \/ (x >= lo /\ x <= hi)

\* 100 * power / kerbWeight is NaN, or lies in [lo, hi) (in tenths)
PwrAbsentOrIn(bike, lo, hi) ==
    \/ bike.power = Undef
    \/ bike.kerbWeight = Undef
    \/ /\ bike.kerbWeight > 0
       /\ 1000 * bike.power >= lo * bike.kerbWeight
       /\ 1000 * bike.power < hi * bike.kerbWeight

\* the record triggers none of the threshold adjustments of the factor
NoAdjustment(bike, pillionMode, factor) ==
    CASE factor = "dailyTrafficEase" ->
             /\ AbsentOrIn(bike.kerbWeight, 175, 185)
             /\ AbsentOrIn(bike.seatHeight, 790, 810)
             /\ \/ PwrAbsentOrIn(bike, 0, 60)
                \/ /\ bike.kerbWeight > 0
                   /\ 100 * bike.power > 10 * bike.kerbWeight
                   /\ 100 * bike.power <= 12 * bike.kerbWeight
             /\ AbsentOrIn(bike.engineCC, 250, 500)
      [] factor = "brakingSafetyConfidence" ->
             /\ bike.frontBrake # "disc"
             /\ bike.rearBrake # "disc"
             /\ bike.absType \notin {"dual-channel", "single-channel"}
             /\ bike.rearTyreWidth < 140
             /\ bike.frontTyreWidth < 110
      [] factor = "primaryPillionComfort" ->
             /\ bike.rearSuspension # "monoshock"
             /\ bike.rearSuspensionTravel < 110
             /\ AbsentOrIn(bike.kerbWeight, 140, 164)
             /\ AbsentOrIn(bike.wheelbase, 1320, 1379)
             /\ AbsentOrIn(bike.seatHeight, 790, 830)
             /\ pillionMode = "secondary" => bike.absType # "dual-channel"
      [] factor = "highwayStability" ->
             /\ AbsentOrIn(bike.wheelbase, 1320, 1369)
             /\ AbsentOrIn(bike.kerbWeight, 145, 164)
             /\ AbsentOrIn(bike.power, 18, 24)
             /\ bike.rearTyreWidth < 140
      [] factor = "riderComfort" ->
             /\ bike.handlebarType \notin {"raised", "standard", "clip-on"}
             /\ bike.seatHeight < 780 \/ bike.seatHeight \in 821..840
             /\ AbsentOrIn(bike.fuelCapacity, 10, 11)
             /\ bike.rearSuspension # "monoshock"
             /\ AbsentOrIn(bike.groundClearance, 140, 159)
      [] factor = "suspensionCompliance" ->
             /\ bike.rearSuspension \notin {"monoshock", "twin"}
             /\ bike.rearSuspensionTravel \in {Undef, 0} \cup 100..119
             /\ LowerNeedles(bike.frontSuspension) \cap {"usd", "telescopic"} = {}
             /\ AbsentOrIn(bike.groundClearance, 140, 159)
      [] factor = "funEngagement" ->
             /\ PwrAbsentOrIn(bike, 50, 60)
             /\ AbsentOrIn(bike.engineCC, 200, 299)
             /\ AbsentOrIn(bike.kerbWeight, 160, 200)
             /\ bike.handlebarType # "clip-on"
      [] factor = "heatManagement" ->
             /\ ~RatingUsable(bike)
             /\ AbsentOrIn(bike.engineCC, 200, 299)
             /\ AbsentOrIn(bike.power, 20, 39)
      [] factor = "ownershipPracticality" ->
             /\ LowerNeedles(bike.brand) = {}
             /\ bike.exShowroomPrice \in {Undef, 0} \cup 150000..300000
      [] factor = "longTermSuitability" ->
             /\ AbsentOrIn(bike.engineCC, 150, 199) \/ AbsentOrIn(bike.engineCC, 601, 700)
             /\ bike.power < 20 \/ bike.power > 45
             /\ LowerNeedles(bike.brand) \cap {"honda", "royal enfield", "hero", "tvs"} = {}
             /\ bike.absType # "dual-channel"
             /\ bike.fuelCapacity < 14
             /\ bike.groundClearance < 170 \/ bike.kerbWeight = Undef \/ bike.kerbWeight > 185

ScoresAndRanks(ranking) ==
    [ i \in DOMAIN ranking.bikes |->
        << ranking.bikes[i].motorcycle.id, ranking.bikes[i].finalScore,
           ranking.bikes[i].rank >> ]

\* C20: when the weight vector passed to scoreAndRankMotorcycles fails
\* validateWeights with an error (a negative entry, or a sum more than 0.05
\* from 1), the final scores and ranks are those produced with
\* DEFAULT_WEIGHTS.  Stated of SpecRank; it fails because the engine never
\* validates the weights: it divides them by their sum and scores with that.
C20_InvalidWeightsFallBack ==
    (rStage = "ranked" /\ ~rResult.threw /\ ~validateWeightsDetailed(rWeights).isValid)
        => /\ getValidWeightsOrDefault(rWeights) = DEFAULT_WEIGHTS
           /\ ScoresAndRanks(rResult)
                  = ScoresAndRanks(scoreAndRankMotorcycles(rBatch, DEFAULT_WEIGHTS, rMode))

\* C30: the boolean validateWeights of the scoring module returns true exactly
\* when the detailed validateWeights of the validator module reports
\* isValid = true.  Stated of SpecWeights, once both have been asked about the
\* same vector; it fails on a vector summing to 1.02 (rejected by the boolean
\* one, valid with a warning for the detailed one).
C30_ValidatorsAgree ==
    wStage = "checked" => (wAccepted <=> wValid.isValid)

\* prices around the thresholds of the price bands
PriceSamples ==
    { 100000, 149999, 150000, 150001, 300000, 300001, 500000, 500001, 650000 }

\* the price adjustment the bands promise, in quarter points
BandAdjustment(price) ==
    IF price < 150000 THEN Score(0, 2)
    ELSE IF price <= 300000 THEN 0
    ELSE IF price <= 500000 THEN -Score(0, 2)
    ELSE -Score(1, 0)

\* C29: scoreOwnershipPracticality never increases when only the price
\* increases, and its price adjustment is +0.5 below 150000, 0 from 150000 to
\* 300000, -0.5 above 300000 up to 500000 and -1 above 500000.  Stated of
\* SpecNormalize for the record scored and for its copies at every sampled
\* price; the brand adjustment is read off the copy without a price, and no
\* sum here leaves 1..10 or needs rounding.  It fails above 500000, where the
\* adjustment is -0.5.
C29_PriceBands ==
    (nStage = "normalized" /\ ~nResult.threw /\ TruthyNum(nBike.exShowroomPrice))
        => /\ nResult.scores["ownershipPracticality"]
                  = scoreOwnershipPracticality([nBike EXCEPT !.exShowroomPrice = Undef])
                    + BandAdjustment(nBike.exShowroomPrice)
           /\ \A p \in PriceSamples :
                  /\ scoreOwnershipPracticality([nBike EXCEPT !.exShowroomPrice = p])
                         = scoreOwnershipPracticality(
                               [nBike EXCEPT !.exShowroomPrice = Undef])
                           + BandAdjustment(p)
                  /\ p > nBike.exShowroomPrice
                         => scoreOwnershipPracticality(
                                [nBike EXCEPT !.exShowroomPrice = p])
                            <= nResult.scores["ownershipPracticality"]

\* C22: the engine is deterministic: running fillMissingData twice on the same
\* partial record, one with no id included, yields the same record in every
\* field (and so for validateMotorcycle, normalizeMotorcycle,
\* scoreAndRankMotorcycles and compareScores, which read nothing but their
\* arguments).  Stated of SpecFill once the record was filled a second time;
\* it fails on a record without id, whose id is a fresh random UUID per call.
C22_FillIsDeterministic ==
    fStage = "refilled" => fAgain = fFilled

\* C21: every discovery result returned with success = true, by the single
\* path, the batch path or the mock path, carries a motorcycle for which
\* validateMotorcycle reports no errors; a record that still has errors after
\* fillMissingData is returned with success = false and the messages of its
\* errors.  Stated of SpecDiscover once a path has returned; it fails on the
\* batch path, which returns the filled record without validating it again.
C21_SuccessMeansNoErrors ==
    dStage = "done"
        => \A i \in DOMAIN dResults.results :
               /\ dResults.results[i].success
                      => Len(validateMotorcycle(dResults.results[i].motorcycle).errors) = 0
               /\ \A k \in DOMAIN dQueries :
                      ( /\ dPath \in {"single", "batch"}
                        /\ dConfigured
                        /\ dQueries[k] = dResults.results[i].query
                        /\ ~dGemini[k].threw
                        /\ Len(validateMotorcycle(
                                   fillMissingData(
                                       convertToMotorcycle(dGemini[k].result, dQueries[k],
                                                           "uuid-1"),
                                       "uuid-1")).errors) > 0 )
                          => /\ ~dResults.results[i].success
                             /\ dResults.results[i].error
                                    = Messages(validateMotorcycle(
                                                   convertToMotorcycle(
                                                       dGemini[k].result, dQueries[k],
                                                       "uuid-1")).errors)

\* C23: the rate limiter admits at most 1000 requests per window: the counter
\* stays in 0..1000, a call of incrementRequestCount returns false exactly
\* when 1000 requests were already admitted since the last reset, at most 1000
\* calls return true between two consecutive resets, and the first call made
\* at or after resetAt resets the counter to 0 and is admitted.  Stated of
\* SpecLimiter, over every interleaving of the two calls and clock advances.
C23_AtMostThousandPerWindow ==
    /\ rateLimitState.count \in 0..1000
    /\ lAdmitted <= 1000
    /\ lLast.op = "incrementRequestCount"
           => /\ ~lLast.returned <=> lLast.admittedBefore = 1000
              /\ lLast.due => ( lLast.returned /\ rateLimitState.count = 1
                                /\ lAdmitted = 1 )
    /\ (lLast.op = "isRateLimited" /\ lLast.due)
           => ( ~lLast.returned /\ rateLimitState.count = 0 /\ lAdmitted = 0 )

\* a window was used up and the next request refused
C23_Witness ==
    /\ lLast.op = "incrementRequestCount"
    /\ ~lLast.returned
    /\ lLast.admittedBefore = 1000
    /\ rateLimitState.count = 1000

\* C24: after any sequence of setWeights (each setting one factor to a value
\* between 0 and 0.5) and resetWeights calls starting from the default
\* weights, the weights held in the store are all non-negative and sum to 1
\* (read as: within 1e-9 of 1, the quotients being rounded).  Stated of
\* SpecSliders; it fails once every slider was moved to 0, when the store
\* holds ten zeros.
C24_StoredWeightsSumToOne ==
    /\ NonNegative(store.weights)
    /\ WithinTolerance(TotalWeight(store.weights), Num1)
    /\ WithinTolerance(ExactSum(store.weights), Num1)

(***************************************************************************)
(* C25: after any sequence of addBikeQuery, removeBikeQuery,               *)
(* clearBikeQueries and reset, bikeQueries holds at most 5 strings, they   *)
(* are pairwise distinct, and each is non-empty and trimmed; so the body   *)
(* of every request discoverBikes sends passes the validation of the       *)
(* route.                                                                  *)
(***************************************************************************)
C25_QueriesPassRouteValidation ==
    /\ Len(store.bikeQueries) <= 5
    /\ \A i, j \in DOMAIN store.bikeQueries :
           i # j => store.bikeQueries[i] # store.bikeQueries[j]
    /\ \A i \in DOMAIN store.bikeQueries :
           /\ store.bikeQueries[i] # ""
           /\ Trim(store.bikeQueries[i]) = store.bikeQueries[i]
    /\ \A i \in DOMAIN tFetch : RouteAccepts(tFetch[i].queries)

\* a sixth query, new and not blank, was just refused
C25_Witness ==
    /\ tLast.op = "addBikeQuery"
    /\ Len(store.bikeQueries) = 5
    /\ Trim(tLast.query) # ""
    /\ ~Includes(store.bikeQueries, Trim(tLast.query))

\* a request with five queries is in flight
C25_WitnessSent ==
    \E i \in DOMAIN tFetch : Len(tFetch[i].queries) = 5

(***************************************************************************)
(* C26: removeBikeQuery(q) takes q out of bikeQueries and removes the      *)
(* motorcycle discovered for q and no other: a motorcycle whose            *)
(* searchQuery is still in bikeQueries stays.                              *)
(***************************************************************************)
C26_RemovesOnlyItsMotorcycle ==
    tLast.op = "removeBikeQuery" =>
        /\ ~Includes(store.bikeQueries, tLast.query)
        /\ \A i \in DOMAIN tLast.motorcycles :
               Includes(store.bikeQueries, tLast.motorcycles[i].searchQuery)
                   => Includes(store.motorcycles, tLast.motorcycles[i])

(***************************************************************************)
(* C27: when a discovery finds some bikes and fails for others, the error  *)
(* naming the bikes that could not be found is still in the store after    *)
(* the comparison that discoverBikes starts has started, and after it has  *)
(* completed.                                                              *)
(***************************************************************************)
C27_PartialFailureMessageKept ==
    ( /\ tLast.op \in { "discoveryResolved", "comparisonResolved" }
      /\ tLast.found > 0
      /\ tLast.failed # <<>> )
        => store.error = ErrorMessage("Some bikes couldn't be found", tLast.failed)

(***************************************************************************)
(* C28: when runComparison is invoked again while an earlier invocation    *)
(* still awaits its explanation, the store ends with the results of the    *)
(* later invocation once both have completed, and isLoading is false only  *)
(* when no invocation is in flight.                                        *)
(***************************************************************************)
C28_LaterInvocationWins ==
    /\ ~store.isLoading => tPending = <<>>
    /\ (tLast.op = "comparisonResolved" /\ tPending = <<>>)
           => /\ store.comparison = tLatest
              /\ store.scoredMotorcycles = tLatest.motorcycles

====
